---- MODULE Spec2Model ----
(***************************************************************************)
(* pylox: a tree-walking interpreter for Lox written in Python.            *)
(*                                                                         *)
(* The model follows the pipeline of src/pylox.py (Lox._run):              *)
(*   Scanner (src/pylox.py)  ->  Parser (src/parser.py)                    *)
(*     ->  Resolver (src/resolver.py)  ->  Interpreter (src/interpreter.py)*)
(* with the run-time objects of src/expr.py and src/environment.py.        *)
(*                                                                         *)
(* Python objects are modelled by their identity: every Expr / Stmt /      *)
(* Function / Class object is a slot of the arena `nodes`, every           *)
(* Environment a slot of `envs`, every Instance a slot of `insts`.         *)
(* Python dicts are association lists (insertion ordered, like dict).      *)
(* Methods are named Class_method after the Python method Class.method     *)
(* (a leading underscore of the Python name is dropped).                   *)
(***************************************************************************)
EXTENDS Integers, Sequences, FiniteSets, TLC

(***************************************************************************)
(* Python dicts                                                            *)
(***************************************************************************)
DictHas(d, k) == \E i \in 1..Len(d) : d[i].k = k

DictGet(d, k) == d[CHOOSE i \in 1..Len(d) : d[i].k = k].v

DictSet(d, k, v) ==
    IF DictHas(d, k)
    THEN [i \in 1..Len(d) |-> IF d[i].k = k THEN [k |-> k, v |-> v] ELSE d[i]]
    ELSE Append(d, [k |-> k, v |-> v])

DictValues(d) == [i \in 1..Len(d) |-> d[i].v]

(***************************************************************************)
(* Lox values as the Python objects that carry them.                       *)
(*   t = "nil"    Python None                                              *)
(*   t = "bool"   Python bool, n = 1 for True                              *)
(*   t = "num"    Python float, the exact rational n / d (d > 0, lowest    *)
(*                terms); rounding of doubles is not modelled              *)
(*   t = "str"    Python str s                                             *)
(*   t = "fun"    a Function object, n its slot in nodes                   *)
(*   t = "class"  a Class object, n its slot in nodes                      *)
(*   t = "inst"   an Instance object, n its slot in insts                  *)
(*   t = "native" the wrapper set_arity(0)(time.time)                      *)
(*   t = "empty"  the Token default literal ""                             *)
(***************************************************************************)
Val(t, n, d, s) == [t |-> t, n |-> n, d |-> d, s |-> s]

NoneV == Val("nil", 0, 1, "")

BoolV(b) == Val("bool", IF b THEN 1 ELSE 0, 1, "")

StrV(s) == Val("str", 0, 1, s)

FunV(f) == Val("fun", f, 1, "")

ClassV(c) == Val("class", c, 1, "")

InstV(i) == Val("inst", i, 1, "")

NativeV == Val("native", 0, 1, "clock")

EmptyV == Val("empty", 0, 1, "")

Abs(i) == IF i < 0 THEN -i ELSE i

RECURSIVE Gcd(_, _)
Gcd(a, b) == IF b = 0 THEN a ELSE Gcd(b, a % b)

NumV(n, d) ==
    LET g == Gcd(Abs(n), d)
    IN  Val("num", n \div g, d \div g, "")

(***************************************************************************)
(* Token (src/tokens.py)                                                   *)
(***************************************************************************)
Token(type, lexeme, literal, line) ==
    [type |-> type, lexeme |-> lexeme, literal |-> literal, line |-> line]

(***************************************************************************)
(* Scanner (src/pylox.py).  The source is a sequence of one-character      *)
(* strings; _start and _current are the 0-based Python indices.            *)
(***************************************************************************)
NUL == "\\0"

Digits == {"0", "1", "2", "3", "4", "5", "6", "7", "8", "9"}

Letters ==
    {"a", "b", "c", "d", "e", "f", "g", "h", "i", "j", "k", "l", "m",
     "n", "o", "p", "q", "r", "s", "t", "u", "v", "w", "x", "y", "z",
     "A", "B", "C", "D", "E", "F", "G", "H", "I", "J", "K", "L", "M",
     "N", "O", "P", "Q", "R", "S", "T", "U", "V", "W", "X", "Y", "Z", "_"}

DigitValue(ch) ==
    CASE ch = "0" -> 0 [] ch = "1" -> 1 [] ch = "2" -> 2 [] ch = "3" -> 3
      [] ch = "4" -> 4 [] ch = "5" -> 5 [] ch = "6" -> 6 [] ch = "7" -> 7
      [] ch = "8" -> 8 [] ch = "9" -> 9

Scanner_keywords ==
    <<[k |-> "and", v |-> "AND"], [k |-> "class", v |-> "CLASS"],
      [k |-> "else", v |-> "ELSE"], [k |-> "false", v |-> "FALSE"],
      [k |-> "for", v |-> "FOR"], [k |-> "fun", v |-> "FUN"],
      [k |-> "if", v |-> "IF"], [k |-> "nil", v |-> "NIL"],
      [k |-> "or", v |-> "OR"], [k |-> "print", v |-> "PRINT"],
      [k |-> "return", v |-> "RETURN"], [k |-> "super", v |-> "SUPER"],
      [k |-> "this", v |-> "THIS"], [k |-> "true", v |-> "TRUE"],
      [k |-> "var", v |-> "VAR"], [k |-> "while", v |-> "WHILE"]>>

\* Scanner.__init__; has_error and stderr are Lox._has_error and the error sink,
\* which Lox.error writes.
Scanner_init(source, has_error, stderr) ==
    [source |-> source, tokens |-> <<>>, start |-> 0, current |-> 0, line |-> 1,
     has_error |-> has_error, stderr |-> stderr]

\* Lox.error -> Lox._report: print to stderr, set Lox._has_error.
Lox_error(S, line, msg) ==
    [S EXCEPT !.has_error = TRUE,
              !.stderr = Append(@, "[line " \o ToString(line) \o "] Error : " \o msg)]

Scanner_is_at_end(S) == S.current >= Len(S.source)

Scanner_advance(S) == [S EXCEPT !.current = @ + 1]

\* source[a:b] as a Python str
RECURSIVE Slice(_, _, _)
Slice(source, a, b) ==
    IF a >= b \/ a >= Len(source) THEN "" ELSE source[a + 1] \o Slice(source, a + 1, b)

Scanner_add_token(S, token_type, literal) ==
    [S EXCEPT !.tokens =
        Append(@, Token(token_type, Slice(S.source, S.start, S.current), literal, S.line))]

Scanner_peek(S) == IF Scanner_is_at_end(S) THEN NUL ELSE S.source[S.current + 1]

Scanner_peek_next(S) ==
    IF S.current + 1 >= Len(S.source) THEN NUL ELSE S.source[S.current + 2]

\* _match(ch): TRUE exactly when the current char is consumed
Scanner_match(S, ch) == ~Scanner_is_at_end(S) /\ S.source[S.current + 1] = ch

Scanner_is_digit(ch) == ch \in Digits

Scanner_is_alpha(ch) == ch \in Letters

Scanner_is_alpha_numeric(ch) == Scanner_is_digit(ch) \/ Scanner_is_alpha(ch)

RECURSIVE Scanner_form_string_while(_)
Scanner_form_string_while(S) ==
    IF Scanner_peek(S) # "\"" /\ ~Scanner_is_at_end(S)
    THEN Scanner_form_string_while(
             Scanner_advance(IF Scanner_peek(S) = "\n"
                             THEN [S EXCEPT !.line = @ + 1] ELSE S))
    ELSE S

\* a scanner that starts over at the opening quote of an unterminated string
Scanner_form_string_rewind(S0) ==
    LET S == Scanner_form_string_while(S0)
    IN  IF Scanner_is_at_end(S)
        THEN [S EXCEPT !.current = S.start, !.line = S0.line]
        ELSE LET S1 == Scanner_advance(S)
             IN  Scanner_add_token(S1, "STRING",
                     StrV(Slice(S1.source, S1.start + 1, S1.current - 1)))

Scanner_form_string(S0) ==
    LET S == Scanner_form_string_while(S0)
    IN  IF Scanner_is_at_end(S)
        THEN Lox_error(S, S.line, "Unterminated string.")
        ELSE LET S1 == Scanner_advance(S)
             IN  Scanner_add_token(S1, "STRING",
                     StrV(Slice(S1.source, S1.start + 1, S1.current - 1)))

RECURSIVE Scanner_digits_while(_)
Scanner_digits_while(S) ==
    IF Scanner_is_digit(Scanner_peek(S))
    THEN Scanner_digits_while(Scanner_advance(S))
    ELSE S

\* float(text) for a text of digits with at most one "." between digits
RECURSIVE Float(_, _, _, _, _, _)
Float(source, a, b, n, d, frac) ==
    IF a >= b THEN NumV(n, d)
    ELSE IF source[a + 1] = "."
         THEN Float(source, a + 1, b, n, d, TRUE)
         ELSE Float(source, a + 1, b, n * 10 + DigitValue(source[a + 1]),
                    IF frac THEN d * 10 ELSE d, frac)

Scanner_form_number(S0) ==
    LET S1 == Scanner_digits_while(S0)
        S2 == IF Scanner_peek(S1) = "." /\ Scanner_is_digit(Scanner_peek_next(S1))
              THEN Scanner_digits_while(Scanner_advance(S1))
              ELSE S1
    IN  Scanner_add_token(S2, "NUMBER", Float(S2.source, S2.start, S2.current, 0, 1, FALSE))

RECURSIVE Scanner_identifier_while(_)
Scanner_identifier_while(S) ==
    IF Scanner_is_alpha_numeric(Scanner_peek(S))
    THEN Scanner_identifier_while(Scanner_advance(S))
    ELSE S

Scanner_form_identifier(S0) ==
    LET S == Scanner_identifier_while(S0)
        text == Slice(S.source, S.start, S.current)
    IN  IF DictHas(Scanner_keywords, text)
        THEN Scanner_add_token(S, DictGet(Scanner_keywords, text), EmptyV)
        ELSE Scanner_add_token(S, "IDENTIFIER", EmptyV)

RECURSIVE Scanner_comment_while(_)
Scanner_comment_while(S) ==
    IF Scanner_peek(S) # "\n" /\ ~Scanner_is_at_end(S)
    THEN Scanner_comment_while(Scanner_advance(S))
    ELSE S

\* the one/two character lexemes: add two if the next char is "=", else one
Scanner_one_or_two(S, two, one) ==
    IF Scanner_match(S, "=")
    THEN Scanner_add_token(Scanner_advance(S), two, EmptyV)
    ELSE Scanner_add_token(S, one, EmptyV)

Scanner_scan_token(S0) ==
    LET c == S0.source[S0.current + 1]
        S == Scanner_advance(S0)
    IN  CASE c = "(" -> Scanner_add_token(S, "LEFT_PAREN", EmptyV)
          [] c = ")" -> Scanner_add_token(S, "RIGHT_PAREN", EmptyV)
          [] c = "{" -> Scanner_add_token(S, "LEFT_BRACE", EmptyV)
          [] c = "}" -> Scanner_add_token(S, "RIGHT_BRACE", EmptyV)
          [] c = "," -> Scanner_add_token(S, "COMMA", EmptyV)
          [] c = "." -> Scanner_add_token(S, "DOT", EmptyV)
          [] c = "-" -> Scanner_add_token(S, "MINUS", EmptyV)
          [] c = "+" -> Scanner_add_token(S, "PLUS", EmptyV)
          [] c = ";" -> Scanner_add_token(S, "SEMICOLON", EmptyV)
          [] c = "*" -> Scanner_add_token(S, "STAR", EmptyV)
          [] c = "!" -> Scanner_one_or_two(S, "BANG_EQUAL", "BANG")
          [] c = "=" -> Scanner_one_or_two(S, "EQUAL_EQUAL", "EQUAL")
          [] c = "<" -> Scanner_one_or_two(S, "LESS_EQUAL", "LESS")
          [] c = ">" -> Scanner_one_or_two(S, "GREATER_EQUAL", "GREATER")
          [] c = "/" -> IF Scanner_match(S, "/")
                        THEN Scanner_comment_while(Scanner_advance(S))
                        ELSE Scanner_add_token(S, "SLASH", EmptyV)
          [] c \in {" ", "\r", "\t"} -> S
          [] c = "\n" -> [S EXCEPT !.line = @ + 1]
          [] Scanner_is_digit(c) -> Scanner_form_number(S)
          [] Scanner_is_alpha(c) -> Scanner_form_identifier(S)
          [] c = "\"" -> Scanner_form_string(S)
          [] OTHER -> Lox_error(S, S.line, "Unexpected character.")

RECURSIVE Scanner_scan_tokens(_)
Scanner_scan_tokens(S) ==
    IF ~Scanner_is_at_end(S)
    THEN Scanner_scan_tokens(Scanner_scan_token([S EXCEPT !.start = S.current]))
    ELSE [S EXCEPT !.tokens = Append(@, Token("EOF", "", EmptyV, S.line))]

(***************************************************************************)
(* Expr and Stmt objects (src/expr.py).  One record shape for every class; *)
(* a, b, c are references to other objects (0 is Python None), list is a   *)
(* list of references.  Field use per class:                               *)
(*   Literal(val)  Unary(op, a=right)  Binary(a=left, op, b=right)         *)
(*   Grouping(a)  Variable(name)  Assign(name, a=value)                    *)
(*   Logical(a=left, op, b=right)  Call(a=callee, line=paren, list=args)   *)
(*   Get(a=obj, name)  Set(a=obj, name, b=value)  This(name=keyword)       *)
(*   Super(name=keyword, method)                                           *)
(*   Expression(a)  Print(a)  Var(name, a=initializer)  Block(list)        *)
(*   IfStmt(a=condition, b=then_branch, c=else_branch)                     *)
(*   WhileStmt(a=condition, b=body)  ReturnStmt(name=keyword, a=value)     *)
(*   Function(name, params, a=body, arity, closure, is_initializer)        *)
(*   Class(name, a=superclass, methods, arity, superclass_obj=_superclass) *)
(* name and line are the lexeme and line of the object's token.            *)
(***************************************************************************)
Node(kind, tok) ==
    [kind |-> kind, name |-> tok.lexeme, line |-> tok.line, op |-> tok.type,
     val |-> NoneV, a |-> 0, b |-> 0, c |-> 0, list |-> <<>>, params |-> <<>>,
     method |-> "", closure |-> 0, is_initializer |-> FALSE, methods |-> <<>>,
     arity |-> 0, superclass_obj |-> 0]

NoToken == Token("", "", EmptyV, 0)

Literal(value) == [Node("Literal", NoToken) EXCEPT !.val = value]

Unary(operator, right) == [Node("Unary", operator) EXCEPT !.a = right]

Binary(left, operator, right) == [Node("Binary", operator) EXCEPT !.a = left, !.b = right]

Grouping(expression) == [Node("Grouping", NoToken) EXCEPT !.a = expression]

Variable(name) == Node("Variable", name)

Assign(name, line, value) ==
    [Node("Assign", NoToken) EXCEPT !.name = name, !.line = line, !.a = value]

Logical(left, operator, right) == [Node("Logical", operator) EXCEPT !.a = left, !.b = right]

Call(callee, paren, arguments) ==
    [Node("Call", paren) EXCEPT !.a = callee, !.list = arguments]

Get(obj, name) == [Node("Get", name) EXCEPT !.a = obj]

Set(obj, name, line, value) ==
    [Node("Set", NoToken) EXCEPT !.name = name, !.line = line, !.a = obj, !.b = value]

This(keyword) == Node("This", keyword)

\* The class Super is imported by parser.py, resolver.py and interpreter.py from expr;
\* its fields are those its users read: keyword and method.
Super(keyword, method) == [Node("Super", keyword) EXCEPT !.method = method.lexeme]

Expression(expr) == [Node("Expression", NoToken) EXCEPT !.a = expr]

PrintStmt(expr) == [Node("Print", NoToken) EXCEPT !.a = expr]

Var(name, initializer) == [Node("Var", name) EXCEPT !.a = initializer]

Block(statements) == [Node("Block", NoToken) EXCEPT !.list = statements]

IfStmt(condition, then_branch, else_branch) ==
    [Node("IfStmt", NoToken) EXCEPT !.a = condition, !.b = then_branch, !.c = else_branch]

WhileStmt(condition, body) == [Node("WhileStmt", NoToken) EXCEPT !.a = condition, !.b = body]

ReturnStmt(keyword, value) == [Node("ReturnStmt", keyword) EXCEPT !.a = value]

\* Function.__init__; name and line are those of the name token, params the lexemes
Function(name, line, params, body, closure, is_initializer) ==
    [Node("Function", NoToken) EXCEPT !.name = name, !.line = line, !.params = params,
        !.a = body, !.arity = Len(params), !.closure = closure,
        !.is_initializer = is_initializer]

\* Class.find_method: the method of that name among the class's own methods, 0 for None
Class_find_method(nodes, klass, name) ==
    IF DictHas(nodes[klass].methods, name) THEN DictGet(nodes[klass].methods, name) ELSE 0

\* the dict built by Class.__init__ from the list of methods
RECURSIVE MethodsDict(_, _, _)
MethodsDict(nodes, methods, i) ==
    IF i = 0 THEN <<>>
    ELSE DictSet(MethodsDict(nodes, methods, i - 1), nodes[methods[i]].name, methods[i])

\* Class.__init__
Class(nodes, name, superclass, methods) ==
    LET dict == MethodsDict(nodes, methods, Len(methods))
        initializer == IF DictHas(dict, "init") THEN DictGet(dict, "init") ELSE 0
    IN  [Node("Class", name) EXCEPT !.a = superclass, !.methods = dict,
            !.arity = IF initializer = 0 THEN 0 ELSE nodes[initializer].arity]

(***************************************************************************)
(* Parser (src/parser.py).  P.current is the 0-based index of the Python   *)
(* code; a result is the parser with n (the object returned), ns (a list   *)
(* returned) and err (a ParseError is propagating, with its token and      *)
(* message).                                                               *)
(***************************************************************************)
Parser_init(tokens, nodes) ==
    [tokens |-> tokens, current |-> 0, nodes |-> nodes, n |-> 0, ns |-> <<>>,
     err |-> FALSE, etoken |-> NoToken, emsg |-> ""]

\* allocation of a new Expr / Stmt object
New(P, node) == [P EXCEPT !.nodes = Append(@, node), !.n = Len(P.nodes) + 1]

Parser_error(P, token, msg) == [P EXCEPT !.err = TRUE, !.etoken = token, !.emsg = msg]

Parser_peek(P) == P.tokens[P.current + 1]

Parser_is_at_end(P) == Parser_peek(P).type = "EOF"

\* tokens[current - 1]; Python's index -1 is the last token
Parser_previous(P) == IF P.current = 0 THEN P.tokens[Len(P.tokens)] ELSE P.tokens[P.current]

Parser_check(P, type) == ~Parser_is_at_end(P) /\ Parser_peek(P).type = type

Parser_advance(P) == IF ~Parser_is_at_end(P) THEN [P EXCEPT !.current = @ + 1] ELSE P

\* _match(types): TRUE exactly when the current token is consumed
Parser_match(P, types) == \E t \in types : Parser_check(P, t)

Parser_consume(P, type, msg) ==
    IF Parser_check(P, type) THEN Parser_advance(P) ELSE Parser_error(P, Parser_peek(P), msg)

\* sequencing: F continues from the parser P unless a ParseError is propagating
Then(P, F(_)) == IF P.err THEN P ELSE F(P)

RECURSIVE Parser_expression(_), Parser_assignment(_), Parser_logic_or_while(_, _, _),
          Parser_logic_and_while(_, _, _), Parser_equality_while(_, _, _),
          Parser_comparison_while(_, _, _), Parser_term_while(_, _, _),
          Parser_factor(_), Parser_factor_while(_), Parser_unary(_),
          Parser_finish_call(_, _), Parser_arguments_while(_, _), Parser_call(_),
          Parser_call_while(_), Parser_primary(_), Parser_block(_),
          Parser_block_while(_, _), Parser_class_declaration(_),
          Parser_methods_while(_, _), Parser_func_declaration(_, _),
          Parser_var_declaration(_), Parser_declarations(_), Parser_if_statement(_),
          Parser_while_statement(_), Parser_for_statement(_), Parser_statement(_)

Parser_expression(P) == Parser_assignment(P)

\* an _assignment that reports the token after the value, as _consume does
Parser_assignment_peek(P) ==
    Then(Parser_logic_or_while(P, 0, NoToken), LAMBDA P1 :
        IF Parser_match(P1, {"EQUAL"})
        THEN Then(Parser_assignment(Parser_advance(P1)), LAMBDA P3 :
                 LET expr == P3.nodes[P1.n]
                 IN  IF expr.kind = "Variable"
                     THEN New(P3, Assign(expr.name, expr.line, P3.n))
                     ELSE IF expr.kind = "Get"
                     THEN New(P3, Set(expr.a, expr.name, expr.line, P3.n))
                     ELSE Parser_error(P3, Parser_peek(P3), "Invalid assignment target."))
        ELSE P1)

Parser_assignment(P) ==
    Then(Parser_logic_or_while(P, 0, NoToken), LAMBDA P1 :
        IF Parser_match(P1, {"EQUAL"})
        THEN Then(Parser_assignment(Parser_advance(P1)), LAMBDA P3 :
                 LET equals == Parser_peek(P1)
                     expr == P3.nodes[P1.n]
                 IN  IF expr.kind = "Variable"
                     THEN New(P3, Assign(expr.name, expr.line, P3.n))
                     ELSE IF expr.kind = "Get"
                     THEN New(P3, Set(expr.a, expr.name, expr.line, P3.n))
                     ELSE Parser_error(P3, equals, "Invalid assignment target."))
        ELSE P1)

\* The loops of _logic_or, _logic_and, _equality, _comparison and _term: each
\* operand is parsed by the next level; left = 0 for the first operand, else
\* the new operand is the right operand of operator and the two are combined.
Parser_logic_or_while(P, left, operator) ==
    Then(Parser_logic_and_while(P, 0, NoToken), LAMBDA P1 :
        LET P2 == IF left = 0 THEN P1 ELSE New(P1, Logical(left, operator, P1.n))
        IN  IF Parser_match(P2, {"OR"})
            THEN Parser_logic_or_while(Parser_advance(P2), P2.n, Parser_peek(P2))
            ELSE P2)

Parser_logic_or(P) == Parser_logic_or_while(P, 0, NoToken)

Parser_logic_and_while(P, left, operator) ==
    Then(Parser_equality_while(P, 0, NoToken), LAMBDA P1 :
        LET P2 == IF left = 0 THEN P1 ELSE New(P1, Logical(left, operator, P1.n))
        IN  IF Parser_match(P2, {"AND"})
            THEN Parser_logic_and_while(Parser_advance(P2), P2.n, Parser_peek(P2))
            ELSE P2)

Parser_logic_and(P) == Parser_logic_and_while(P, 0, NoToken)

Parser_equality_while(P, left, operator) ==
    Then(Parser_comparison_while(P, 0, NoToken), LAMBDA P1 :
        LET P2 == IF left = 0 THEN P1 ELSE New(P1, Binary(left, operator, P1.n))
        IN  IF Parser_match(P2, {"BANG_EQUAL", "EQUAL_EQUAL"})
            THEN Parser_equality_while(Parser_advance(P2), P2.n, Parser_peek(P2))
            ELSE P2)

Parser_equality(P) == Parser_equality_while(P, 0, NoToken)

Parser_comparison_while(P, left, operator) ==
    Then(Parser_term_while(P, 0, NoToken), LAMBDA P1 :
        LET P2 == IF left = 0 THEN P1 ELSE New(P1, Binary(left, operator, P1.n))
        IN  IF Parser_match(P2, {"GREATER", "GREATER_EQUAL", "LESS", "LESS_EQUAL"})
            THEN Parser_comparison_while(Parser_advance(P2), P2.n, Parser_peek(P2))
            ELSE P2)

Parser_comparison(P) == Parser_comparison_while(P, 0, NoToken)

Parser_term_while(P, left, operator) ==
    Then(Parser_factor(P), LAMBDA P1 :
        LET P2 == IF left = 0 THEN P1 ELSE New(P1, Binary(left, operator, P1.n))
        IN  IF Parser_match(P2, {"MINUS", "PLUS"})
            THEN Parser_term_while(Parser_advance(P2), P2.n, Parser_peek(P2))
            ELSE P2)

Parser_term(P) == Parser_term_while(P, 0, NoToken)

Parser_factor(P) == Then(Parser_unary(P), LAMBDA P1 : Parser_factor_while(P1))

\* the loop of _factor: the right operand is parsed by _factor itself (parser.py
\* line 195), not by _unary
Parser_factor_while(P) ==
    IF Parser_match(P, {"SLASH", "STAR"})
    THEN Then(Parser_factor(Parser_advance(P)), LAMBDA P3 :
             Parser_factor_while(New(P3, Binary(P.n, Parser_peek(P), P3.n))))
    ELSE P

Parser_unary(P) ==
    IF Parser_match(P, {"BANG", "MINUS"})
    THEN Then(Parser_unary(Parser_advance(P)), LAMBDA P3 :
             New(P3, Unary(Parser_peek(P), P3.n)))
    ELSE Parser_call(P)

\* the do-while of _finish_call: one argument, then "," and the next
Parser_arguments_while(P, arguments) ==
    Then(Parser_expression(P), LAMBDA P1 :
        IF Parser_match(P1, {"COMMA"})
        THEN Parser_arguments_while(Parser_advance(P1), Append(arguments, P1.n))
        ELSE [P1 EXCEPT !.ns = Append(arguments, P1.n)])

Parser_finish_call(P, callee) ==
    Then(IF ~Parser_check(P, "RIGHT_PAREN") THEN Parser_arguments_while(P, <<>>)
         ELSE [P EXCEPT !.ns = <<>>], LAMBDA P1 :
    Then(Parser_consume(P1, "RIGHT_PAREN", "Expect ')' after arguments."), LAMBDA P2 :
        New(P2, Call(callee, Parser_previous(P2), P1.ns))))

Parser_call(P) == Then(Parser_primary(P), LAMBDA P1 : Parser_call_while(P1))

Parser_call_while(P) ==
    IF Parser_match(P, {"LEFT_PAREN"})
    THEN Then(Parser_finish_call(Parser_advance(P), P.n), LAMBDA P2 : Parser_call_while(P2))
    ELSE IF Parser_match(P, {"DOT"})
    THEN Then(Parser_consume(Parser_advance(P), "IDENTIFIER",
                             "Expect property name after '.'."), LAMBDA P2 :
             Parser_call_while(New(P2, Get(P.n, Parser_previous(P2)))))
    ELSE P

Parser_primary(P) ==
    IF Parser_match(P, {"NUMBER", "STRING"})
    THEN New(Parser_advance(P), Literal(Parser_peek(P).literal))
    ELSE IF Parser_match(P, {"IDENTIFIER"})
    THEN New(Parser_advance(P), Variable(Parser_peek(P)))
    ELSE IF Parser_match(P, {"THIS"})
    THEN New(Parser_advance(P), This(Parser_peek(P)))
    ELSE IF Parser_match(P, {"TRUE"})
    THEN New(Parser_advance(P), Literal(BoolV(TRUE)))
    ELSE IF Parser_match(P, {"FALSE"})
    THEN New(Parser_advance(P), Literal(BoolV(FALSE)))
    ELSE IF Parser_match(P, {"NIL"})
    THEN New(Parser_advance(P), Literal(NoneV))
    ELSE IF Parser_match(P, {"SUPER"})
    THEN Then(Parser_consume(Parser_advance(P), "DOT", "Expect '.' after 'super'."),
              LAMBDA P2 :
         Then(Parser_consume(P2, "IDENTIFIER", "Expect superclass method name."),
              LAMBDA P3 :
             New(P3, Super(Parser_peek(P), Parser_previous(P3)))))
    ELSE IF Parser_match(P, {"LEFT_PAREN"})
    THEN Then(Parser_expression(Parser_advance(P)), LAMBDA P2 :
         Then(Parser_consume(P2, "RIGHT_PAREN", "Expect ')' after expression."),
              LAMBDA P3 :
             New(P3, Grouping(P2.n))))
    ELSE Parser_error(P, Parser_peek(P), "Expect expression.")

Parser_print_statement(P) ==
    Then(Parser_expression(P), LAMBDA P1 :
    Then(Parser_consume(P1, "SEMICOLON", "Expect ';' after value."), LAMBDA P2 :
        New(P2, PrintStmt(P1.n))))

Parser_expression_statement(P) ==
    Then(Parser_expression(P), LAMBDA P1 :
    Then(Parser_consume(P1, "SEMICOLON", "Expect ';' after expression."), LAMBDA P2 :
        New(P2, Expression(P1.n))))

Parser_block_while(P, statements) ==
    IF ~Parser_check(P, "RIGHT_BRACE") /\ ~Parser_is_at_end(P)
    THEN Then(Parser_declarations(P), LAMBDA P1 :
             Parser_block_while(P1, Append(statements, P1.n)))
    ELSE [P EXCEPT !.ns = statements]

Parser_block(P) ==
    Then(Parser_block_while(P, <<>>), LAMBDA P1 :
    Then(Parser_consume(P1, "RIGHT_BRACE", "Expect '}' after block."), LAMBDA P2 :
        New(P2, Block(P1.ns))))

Parser_methods_while(P, methods) ==
    IF ~Parser_check(P, "RIGHT_BRACE") /\ ~Parser_is_at_end(P)
    THEN Then(Parser_func_declaration(P, "method"), LAMBDA P1 :
             Parser_methods_while(P1, Append(methods, P1.n)))
    ELSE [P EXCEPT !.ns = methods]

Parser_class_declaration(P) ==
    Then(Parser_consume(P, "IDENTIFIER", "Expect class name."), LAMBDA P1 :
    Then(IF Parser_match(P1, {"LESS"})
         THEN Then(Parser_consume(Parser_advance(P1), "IDENTIFIER",
                                  "Expect superclass name."), LAMBDA Q :
                  New(Q, Variable(Parser_previous(Q))))
         ELSE [P1 EXCEPT !.n = 0], LAMBDA P2 :
    Then(Parser_consume(P2, "LEFT_BRACE", "Expect '{' before class body."), LAMBDA P3 :
    Then(Parser_methods_while(P3, <<>>), LAMBDA P4 :
    Then(Parser_consume(P4, "RIGHT_BRACE", "Expect '}' after class body."), LAMBDA P5 :
        New(P5, Class(P5.nodes, Parser_previous(P1), P2.n, P4.ns)))))))

\* the do-while over the parameters of _func_declaration
RECURSIVE Parser_parameters_while(_, _)
Parser_parameters_while(P, parameters) ==
    Then(Parser_consume(P, "IDENTIFIER", "Expect parameter name."), LAMBDA P1 :
        IF Parser_match(P1, {"COMMA"})
        THEN Parser_parameters_while(Parser_advance(P1),
                                     Append(parameters, Parser_previous(P1).lexeme))
        ELSE [P1 EXCEPT !.ns = Append(parameters, Parser_previous(P1).lexeme)])

Parser_func_declaration(P, kind) ==
    Then(Parser_consume(P, "IDENTIFIER", "Expect " \o kind \o " name."), LAMBDA P1 :
    Then(Parser_consume(P1, "LEFT_PAREN", "Expect '(' after " \o kind \o " name."),
         LAMBDA P2 :
    Then(IF ~Parser_check(P2, "RIGHT_PAREN") THEN Parser_parameters_while(P2, <<>>)
         ELSE [P2 EXCEPT !.ns = <<>>], LAMBDA P3 :
    Then(Parser_consume(P3, "RIGHT_PAREN", "Expect ')' after " \o kind \o " name"),
         LAMBDA P4 :
    Then(Parser_consume(P4, "LEFT_BRACE", "Expect '{' before " \o kind \o " body."),
         LAMBDA P5 :
    Then(Parser_block(P5), LAMBDA P6 :
        New(P6, Function(Parser_previous(P1).lexeme, Parser_previous(P1).line, P3.ns,
                         P6.n, 0, FALSE))))))))

Parser_var_declaration(P) ==
    Then(Parser_consume(P, "IDENTIFIER", "Expect variable name."), LAMBDA P1 :
    Then(IF Parser_match(P1, {"EQUAL"}) THEN Parser_expression(Parser_advance(P1))
         ELSE [P1 EXCEPT !.n = 0], LAMBDA P2 :
    Then(Parser_consume(P2, "SEMICOLON", "Expect ';' after variable declaration."),
         LAMBDA P3 :
        New(P3, Var(Parser_previous(P1), P2.n)))))

\* no ParseError is caught here: the try / _synchronize is commented out
Parser_declarations(P) ==
    IF Parser_match(P, {"CLASS"}) THEN Parser_class_declaration(Parser_advance(P))
    ELSE IF Parser_match(P, {"FUN"}) THEN Parser_func_declaration(Parser_advance(P), "function")
    ELSE IF Parser_match(P, {"VAR"}) THEN Parser_var_declaration(Parser_advance(P))
    ELSE Parser_statement(P)

Parser_if_statement(P) ==
    Then(Parser_consume(P, "LEFT_PAREN", "Expect '(' after 'if'"), LAMBDA P1 :
    Then(Parser_expression(P1), LAMBDA P2 :
    Then(Parser_consume(P2, "RIGHT_PAREN", "Expect ')' after if condition."), LAMBDA P3 :
    Then(Parser_statement(P3), LAMBDA P4 :
    Then(IF Parser_match(P4, {"ELSE"}) THEN Parser_statement(Parser_advance(P4))
         ELSE [P4 EXCEPT !.n = 0], LAMBDA P5 :
        New(P5, IfStmt(P2.n, P4.n, P5.n)))))))

Parser_while_statement(P) ==
    Then(Parser_consume(P, "LEFT_PAREN", "Expect '(' after 'if'"), LAMBDA P1 :
    Then(Parser_expression(P1), LAMBDA P2 :
    Then(Parser_consume(P2, "RIGHT_PAREN", "Expect ')' after if condition."), LAMBDA P3 :
    Then(Parser_statement(P3), LAMBDA P4 :
        New(P4, WhileStmt(P2.n, P4.n))))))

\* the desugaring at the end of _for_statement; 0 is None
Parser_for_desugar(P, initializer, condition, increment, body) ==
    LET P1 == IF increment # 0
              THEN New(New(P, Expression(increment)), Block(<<body, Len(P.nodes) + 1>>))
              ELSE [P EXCEPT !.n = body]
        P2 == IF condition = 0 THEN New(P1, Literal(BoolV(TRUE))) ELSE P1
        P3 == New(P2, WhileStmt(IF condition = 0 THEN P2.n ELSE condition, P1.n))
    IN  IF initializer # 0 THEN New(P3, Block(<<initializer, P3.n>>)) ELSE P3

Parser_for_statement(P) ==
    Then(Parser_consume(P, "LEFT_PAREN", "Expect '(' after 'for'"), LAMBDA P1 :
    Then(IF Parser_match(P1, {"VAR"}) THEN Parser_var_declaration(Parser_advance(P1))
         ELSE IF Parser_match(P1, {"SEMICOLON"}) THEN [Parser_advance(P1) EXCEPT !.n = 0]
         ELSE Parser_expression_statement(P1), LAMBDA P2 :
    Then(IF ~Parser_check(P2, "SEMICOLON") THEN Parser_expression(P2)
         ELSE [P2 EXCEPT !.n = 0], LAMBDA P3 :
    Then(Parser_consume(P3, "SEMICOLON", "Expect ';' after loop condition"), LAMBDA P4 :
    Then(IF ~Parser_check(P4, "RIGHT_PAREN") THEN Parser_expression(P4)
         ELSE [P4 EXCEPT !.n = 0], LAMBDA P5 :
    Then(Parser_consume(P5, "RIGHT_PAREN", "Expect ')' after for clause"), LAMBDA P6 :
    Then(Parser_statement(P6), LAMBDA P7 :
        Parser_for_desugar(P7, P2.n, P3.n, P5.n, P7.n))))))))

Parser_return_statement(P) ==
    Then(IF ~Parser_check(P, "SEMICOLON") THEN Parser_expression(P)
         ELSE [P EXCEPT !.n = 0], LAMBDA P1 :
    Then(Parser_consume(P1, "SEMICOLON", "Expect ';' after return value."), LAMBDA P2 :
        New(P2, ReturnStmt(Parser_previous(P), P1.n))))

Parser_statement(P) ==
    IF Parser_match(P, {"FOR"}) THEN Parser_for_statement(Parser_advance(P))
    ELSE IF Parser_match(P, {"IF"}) THEN Parser_if_statement(Parser_advance(P))
    ELSE IF Parser_match(P, {"PRINT"}) THEN Parser_print_statement(Parser_advance(P))
    ELSE IF Parser_match(P, {"RETURN"}) THEN Parser_return_statement(Parser_advance(P))
    ELSE IF Parser_match(P, {"WHILE"}) THEN Parser_while_statement(Parser_advance(P))
    ELSE IF Parser_match(P, {"LEFT_BRACE"}) THEN Parser_block(Parser_advance(P))
    ELSE Parser_expression_statement(P)

RECURSIVE Parser_parse_while(_, _)
Parser_parse_while(P, statements) ==
    IF ~Parser_is_at_end(P)
    THEN Then(Parser_declarations(P), LAMBDA P1 :
             Parser_parse_while(P1, Append(statements, P1.n)))
    ELSE [P EXCEPT !.ns = statements]

\* parse() catches nothing: a ParseError leaves it (err), else ns is the list returned
Parser_parse(P) == Parser_parse_while(P, <<>>)

(***************************************************************************)
(* Environment (src/environment.py).  envs is the heap of Environment      *)
(* objects; an environment is [values, enclosing] with enclosing = 0 for   *)
(* the global one.  A reference 0 stands for Python None.                  *)
(***************************************************************************)
Environment(env) == [values |-> <<>>, enclosing |-> env]

Environment_define(envs, e, name, value) ==
    [envs EXCEPT ![e].values = DictSet(@, name, value)]

\* an _assign that writes the outermost environment when no environment of
\* the chain holds the name
RECURSIVE Environment_assign_where_create(_, _, _)
Environment_assign_where_create(envs, e, name) ==
    IF DictHas(envs[e].values, name) THEN e
    ELSE IF envs[e].enclosing # 0
    THEN Environment_assign_where_create(envs, envs[e].enclosing, name)
    ELSE e

\* the environment _assign writes: the nearest of the chain holding the name, 0 when
\* none does (InterpreterError "Undefined variable")
RECURSIVE Environment_assign_where(_, _, _)
Environment_assign_where(envs, e, name) ==
    IF DictHas(envs[e].values, name) THEN e
    ELSE IF envs[e].enclosing # 0 THEN Environment_assign_where(envs, envs[e].enclosing, name)
    ELSE 0

Environment_assign(envs, e, name, value) ==
    LET w == Environment_assign_where(envs, e, name)
    IN  IF w = 0 THEN envs ELSE [envs EXCEPT ![w].values = DictSet(@, name, value)]

\* a get that asks the enclosing environments first
RECURSIVE Environment_get_where_outer(_, _, _)
Environment_get_where_outer(envs, e, name) ==
    LET outer == IF envs[e].enclosing # 0
                 THEN Environment_get_where_outer(envs, envs[e].enclosing, name)
                 ELSE 0
    IN  IF outer # 0 THEN outer
        ELSE IF DictHas(envs[e].values, name) THEN e
        ELSE 0

\* the environment get reads: as for _assign
RECURSIVE Environment_get_where(_, _, _)
Environment_get_where(envs, e, name) ==
    IF DictHas(envs[e].values, name) THEN e
    ELSE IF envs[e].enclosing # 0 THEN Environment_get_where(envs, envs[e].enclosing, name)
    ELSE 0

Environment_get(envs, e, name) == DictGet(envs[Environment_get_where(envs, e, name)].values, name)

\* distance steps up the chain; 0 (None) once the chain has ended
RECURSIVE Environment_ancestor(_, _, _)
Environment_ancestor(envs, e, distance) ==
    IF distance <= 0 \/ e = 0 THEN e
    ELSE Environment_ancestor(envs, envs[e].enclosing, distance - 1)

\* dict.get(name): None when the name is absent
Environment_get_at(envs, e, distance, name) ==
    LET values == envs[Environment_ancestor(envs, e, distance)].values
    IN  IF DictHas(values, name) THEN DictGet(values, name) ELSE NoneV

Environment_assign_at(envs, e, distance, name, value) ==
    [envs EXCEPT ![Environment_ancestor(envs, e, distance)].values = DictSet(@, name, value)]

(***************************************************************************)
(* Resolver (src/resolver.py).  Z is the resolver together with what it    *)
(* writes: the interpreter's table locals and standard output.             *)
(***************************************************************************)
Resolver_init(nodes, locals, out) ==
    [nodes |-> nodes, scopes |-> <<>>, current_func |-> "NONE", current_class |-> "NONE",
     has_error |-> FALSE, locals |-> locals, out |-> out, begun |-> 0, ended |-> 0]

\* the resolver without the interpreter it writes to and the objects it reads
Resolver_state(Z) ==
    [scopes |-> Z.scopes, current_func |-> Z.current_func, current_class |-> Z.current_class,
     has_error |-> Z.has_error, begun |-> Z.begun, ended |-> Z.ended]

\* a table to which every resolution is added as a new entry
Interpreter_resolve_append(locals, expr, depth) == Append(locals, [k |-> expr, v |-> depth])

\* Interpreter._resolve (interpreter.py), which _resolve_local calls as interpreter.resolve
Interpreter_resolve(locals, expr, depth) == DictSet(locals, expr, depth)

\* error_report (errors.py) with show_line_number = False, and the flag
Resolver_error_and_set_flag(Z, lexeme, msg) ==
    [Z EXCEPT !.has_error = TRUE,
              !.out = Append(@, "Error at '" \o lexeme \o "': " \o msg)]

\* the scope index found by the reversed loop, 0 when no scope holds the name
RECURSIVE Resolver_resolve_local_for(_, _, _)
Resolver_resolve_local_for(scopes, i, name) ==
    IF i = 0 THEN 0
    ELSE IF DictHas(scopes[i], name) THEN i
    ELSE Resolver_resolve_local_for(scopes, i - 1, name)

\* a _resolve_local that records the index of the scope, counted from the
\* outermost, in place of the distance
Resolver_resolve_local_index(Z, expr, name) ==
    LET i == Resolver_resolve_local_for(Z.scopes, Len(Z.scopes), name)
    IN  IF i = 0 THEN Z
        ELSE [Z EXCEPT !.locals = Interpreter_resolve(@, expr, i - 1)]

\* i is the 1-based place of the scope: Python's len - 1 - index is Len - i
Resolver_resolve_local(Z, expr, name) ==
    LET i == Resolver_resolve_local_for(Z.scopes, Len(Z.scopes), name)
    IN  IF i = 0 THEN Z
        ELSE [Z EXCEPT !.locals = Interpreter_resolve(@, expr, Len(Z.scopes) - i)]

Resolver_begin_scope(Z) == [Z EXCEPT !.scopes = Append(@, <<>>), !.begun = @ + 1]

Resolver_end_scope(Z) == [Z EXCEPT !.scopes = SubSeq(@, 1, Len(@) - 1), !.ended = @ + 1]

\* a resolver for which a declared name can be read at once
Resolver_declare_ready(Z, name) ==
    IF Z.scopes = <<>> THEN Z
    ELSE LET Z1 == IF DictHas(Z.scopes[Len(Z.scopes)], name)
                   THEN Resolver_error_and_set_flag(Z, name,
                            "Already a variable with this name in this scope.")
                   ELSE Z
         IN  [Z1 EXCEPT !.scopes[Len(Z.scopes)] = DictSet(@, name, TRUE)]

Resolver_declare(Z, name) ==
    IF Z.scopes = <<>> THEN Z
    ELSE LET Z1 == IF DictHas(Z.scopes[Len(Z.scopes)], name)
                   THEN Resolver_error_and_set_flag(Z, name,
                            "Already a variable with this name in this scope.")
                   ELSE Z
         IN  [Z1 EXCEPT !.scopes[Len(Z.scopes)] = DictSet(@, name, FALSE)]

Resolver_define(Z, name) ==
    IF Z.scopes = <<>> THEN Z
    ELSE [Z EXCEPT !.scopes[Len(Z.scopes)] = DictSet(@, name, TRUE)]

RECURSIVE Resolver_visit(_, _), Resolver_resolve_list(_, _, _),
          Resolver_resolve_function(_, _, _), Resolver_methods_for(_, _, _)

\* _resolve of a list: visit each
Resolver_resolve_list(Z, statements, i) ==
    IF i > Len(statements) THEN Z
    ELSE Resolver_resolve_list(Resolver_visit(Z, statements[i]), statements, i + 1)

\* _resolve of one Expr or Stmt; 0 is never passed (the callers test for None)
Resolver_resolve(Z, n) == Resolver_visit(Z, n)

RECURSIVE Resolver_params_for(_, _, _)
Resolver_params_for(Z, params, i) ==
    IF i > Len(params) THEN Z
    ELSE Resolver_params_for(Resolver_define(Resolver_declare(Z, params[i]), params[i]),
                             params, i + 1)

\* a resolver that leaves the function kind of the function it has resolved in force
Resolver_resolve_function_keep(Z, stmt, type) ==
    LET Z1 == Resolver_begin_scope([Z EXCEPT !.current_func = type])
        Z2 == Resolver_params_for(Z1, Z.nodes[stmt].params, 1)
        Z3 == Resolver_resolve_list(Z2, Z.nodes[Z.nodes[stmt].a].list, 1)
    IN  Resolver_end_scope(Z3)

Resolver_resolve_function(Z, stmt, type) ==
    LET enclosing_func == Z.current_func
        Z1 == Resolver_begin_scope([Z EXCEPT !.current_func = type])
        Z2 == Resolver_params_for(Z1, Z.nodes[stmt].params, 1)
        Z3 == Resolver_resolve_list(Z2, Z.nodes[Z.nodes[stmt].a].list, 1)
    IN  [Resolver_end_scope(Z3) EXCEPT !.current_func = enclosing_func]

Resolver_visit_Block(Z, stmt) ==
    Resolver_end_scope(Resolver_resolve_list(Resolver_begin_scope(Z), Z.nodes[stmt].list, 1))

Resolver_visit_Var(Z, stmt) ==
    LET Z1 == Resolver_declare(Z, Z.nodes[stmt].name)
        Z2 == IF Z.nodes[stmt].a # 0 THEN Resolver_resolve(Z1, Z.nodes[stmt].a) ELSE Z1
    IN  Resolver_define(Z2, Z.nodes[stmt].name)

Resolver_visit_Variable(Z, expr) ==
    LET name == Z.nodes[expr].name
        Z1 == IF /\ Z.scopes # <<>>
                 /\ DictHas(Z.scopes[Len(Z.scopes)], name)
                 /\ ~DictGet(Z.scopes[Len(Z.scopes)], name)
              THEN Resolver_error_and_set_flag(Z, name,
                       "Can't read local variable in its own initializer.")
              ELSE Z
    IN  Resolver_resolve_local(Z1, expr, name)

Resolver_visit_Assign(Z, expr) ==
    Resolver_resolve_local(Resolver_resolve(Z, Z.nodes[expr].a), expr, Z.nodes[expr].name)

Resolver_visit_Function(Z, stmt) ==
    LET name == Z.nodes[stmt].name
    IN  Resolver_resolve_function(Resolver_define(Resolver_declare(Z, name), name),
                                  stmt, "FUNCTION")

Resolver_visit_IfStmt(Z, stmt) ==
    LET Z1 == Resolver_resolve(Resolver_resolve(Z, Z.nodes[stmt].a), Z.nodes[stmt].b)
    IN  IF Z.nodes[stmt].c # 0 THEN Resolver_resolve(Z1, Z.nodes[stmt].c) ELSE Z1

Resolver_visit_ReturnStmt(Z, stmt) ==
    LET Z1 == IF Z.current_func = "NONE"
              THEN Resolver_error_and_set_flag(Z, Z.nodes[stmt].name,
                       "Can't return from top-level code.")
              ELSE Z
    IN  IF Z.nodes[stmt].a # 0
        THEN Resolver_resolve(
                 IF Z1.current_func = "INITIALIZER"
                 THEN Resolver_error_and_set_flag(Z1, Z.nodes[stmt].name,
                          "Can't return a value from an initializer.")
                 ELSE Z1,
                 Z.nodes[stmt].a)
        ELSE Z1

Resolver_methods_for(Z, methods, i) ==
    IF i > Len(methods) THEN Z
    ELSE Resolver_methods_for(
             Resolver_resolve_function(Z, methods[i],
                 IF Z.nodes[methods[i]].name = "init" THEN "INITIALIZER" ELSE "METHOD"),
             methods, i + 1)

\* a visit_Class that leaves the scope of super on the stack
Resolver_visit_Class_no_end(Z, stmt) ==
    LET enclosing_class == Z.current_class
        name == Z.nodes[stmt].name
        superclass == Z.nodes[stmt].a
        Z1 == Resolver_define(Resolver_declare([Z EXCEPT !.current_class = "CLASS"], name), name)
        Z2 == IF superclass # 0 /\ name = Z.nodes[superclass].name
              THEN Resolver_error_and_set_flag(Z1, Z.nodes[superclass].name,
                       "A class can't inherit from itself.")
              ELSE Z1
        Z3 == IF superclass # 0
              THEN Resolver_resolve([Z2 EXCEPT !.current_class = "SUBCLASS"], superclass)
              ELSE Z2
        Z4 == IF superclass # 0
              THEN LET B == Resolver_begin_scope(Z3)
                   IN  [B EXCEPT !.scopes[Len(B.scopes)] = DictSet(@, "super", TRUE)]
              ELSE Z3
        Z5 == LET B == Resolver_begin_scope(Z4)
              IN  [B EXCEPT !.scopes[Len(B.scopes)] = DictSet(@, "this", TRUE)]
        Z6 == Resolver_end_scope(
                  Resolver_methods_for(Z5, DictValues(Z.nodes[stmt].methods), 1))
    IN  [Z6 EXCEPT !.current_class = enclosing_class]

Resolver_visit_Class(Z, stmt) ==
    LET enclosing_class == Z.current_class
        name == Z.nodes[stmt].name
        superclass == Z.nodes[stmt].a
        Z1 == Resolver_define(Resolver_declare([Z EXCEPT !.current_class = "CLASS"], name), name)
        Z2 == IF superclass # 0 /\ name = Z.nodes[superclass].name
              THEN Resolver_error_and_set_flag(Z1, Z.nodes[superclass].name,
                       "A class can't inherit from itself.")
              ELSE Z1
        Z3 == IF superclass # 0
              THEN Resolver_resolve([Z2 EXCEPT !.current_class = "SUBCLASS"], superclass)
              ELSE Z2
        Z4 == IF superclass # 0
              THEN LET B == Resolver_begin_scope(Z3)
                   IN  [B EXCEPT !.scopes[Len(B.scopes)] = DictSet(@, "super", TRUE)]
              ELSE Z3
        Z5 == LET B == Resolver_begin_scope(Z4)
              IN  [B EXCEPT !.scopes[Len(B.scopes)] = DictSet(@, "this", TRUE)]
        Z6 == Resolver_end_scope(
                  Resolver_methods_for(Z5, DictValues(Z.nodes[stmt].methods), 1))
        Z7 == IF superclass # 0 THEN Resolver_end_scope(Z6) ELSE Z6
    IN  [Z7 EXCEPT !.current_class = enclosing_class]

Resolver_visit_Call(Z, expr) ==
    Resolver_resolve_list(Resolver_resolve(Z, Z.nodes[expr].a), Z.nodes[expr].list, 1)

Resolver_visit_This(Z, expr) ==
    Resolver_resolve_local(
        IF Z.current_class = "NONE"
        THEN Resolver_error_and_set_flag(Z, Z.nodes[expr].name,
                 "Can't use 'this' outside of a class.")
        ELSE Z,
        expr, Z.nodes[expr].name)

Resolver_visit_Super(Z, expr) ==
    Resolver_resolve_local(
        IF Z.current_class = "NONE"
        THEN Resolver_error_and_set_flag(Z, Z.nodes[expr].name,
                 "Can't use 'super' outside of a class.")
        ELSE IF Z.current_class = "CLASS"
        THEN Resolver_error_and_set_flag(Z, Z.nodes[expr].name,
                 "Can't use 'super' in a class with no superclass.")
        ELSE Z,
        expr, Z.nodes[expr].name)

\* ExprVisitor.visit (expr.py): dispatch on the class of the object
Resolver_visit(Z, n) ==
    LET kind == Z.nodes[n].kind
    IN  CASE kind = "Block" -> Resolver_visit_Block(Z, n)
          [] kind = "Var" -> Resolver_visit_Var(Z, n)
          [] kind = "Variable" -> Resolver_visit_Variable(Z, n)
          [] kind = "Assign" -> Resolver_visit_Assign(Z, n)
          [] kind = "Function" -> Resolver_visit_Function(Z, n)
          [] kind = "IfStmt" -> Resolver_visit_IfStmt(Z, n)
          [] kind = "ReturnStmt" -> Resolver_visit_ReturnStmt(Z, n)
          [] kind = "Class" -> Resolver_visit_Class(Z, n)
          [] kind = "Call" -> Resolver_visit_Call(Z, n)
          [] kind = "This" -> Resolver_visit_This(Z, n)
          [] kind = "Super" -> Resolver_visit_Super(Z, n)
          [] kind = "Literal" -> Z
          \* visit_Expression, visit_Print, visit_Get, visit_Grouping, visit_Unary
          [] kind \in {"Expression", "Print", "Get", "Grouping", "Unary"} ->
                Resolver_resolve(Z, Z.nodes[n].a)
          \* visit_WhileStmt, visit_Binary, visit_Logical
          [] kind \in {"WhileStmt", "Binary", "Logical"} ->
                Resolver_resolve(Resolver_resolve(Z, Z.nodes[n].a), Z.nodes[n].b)
          \* visit_Set: the value, then the object
          [] kind = "Set" -> Resolver_resolve(Resolver_resolve(Z, Z.nodes[n].b), Z.nodes[n].a)

(***************************************************************************)
(* Interpreter (src/interpreter.py) and the callable objects of            *)
(* src/expr.py.  I is the interpreter with the heaps it works on:          *)
(*   nodes, envs, insts   the objects                                      *)
(*   environment, locals  Interpreter.environment, Interpreter.locals      *)
(*   out                  standard output, one string per line             *)
(*   clock                what time.time() returns in this step            *)
(*   v, vs                the value (the list of values) returned          *)
(*   ctl                  "ok", or the exception that is propagating:      *)
(*                        "InterpreterError" (emsg, etok), "ReturnException"*)
(*                        (v is its value), or "host": a Python exception  *)
(*                        the program does not raise itself (emsg names it)*)
(* History, for stating properties only:                                   *)
(*   trace                the events of the evaluation, in order           *)
(*   frame, nframes       the running Function.__call__ (0: none) and the  *)
(*                        number of calls started                          *)
(*   blocks               the calls of _execute_block that have ended: the *)
(*                        environment before (previous), the one given     *)
(*                        (environment), the one after (current), how the  *)
(*                        loop ended (ctl) and the lengths of the trace at *)
(*                        the start (from) and at the end (till)           *)
(*   binds                the calls of Function.bind: the method, the      *)
(*                        instance, the value returned, the new            *)
(*                        environment, the place of the call in the trace  *)
(*                        (at) and the heaps before and after the call     *)
(***************************************************************************)
Globals == 1

Ev(ev, node, frame, env, v, list, how) ==
    [ev |-> ev, node |-> node, frame |-> frame, env |-> env, v |-> v, list |-> list,
     how |-> how]

Log(I, ev, node, env, v, list, how) ==
    [I EXCEPT !.trace = Append(@, Ev(ev, node, I.frame, env, v, list, how))]

Ret(I, value) == [I EXCEPT !.v = value, !.ctl = "ok"]

\* raise InterpreterError(token, msg)
Raise(I, lexeme, msg) ==
    [Log(I, "raise", 0, I.environment, NoneV, <<>>, msg)
        EXCEPT !.ctl = "InterpreterError", !.etok = lexeme, !.emsg = msg]

\* a Python exception raised by the host operation itself
HostError(I, exception) == [I EXCEPT !.ctl = "host", !.emsg = exception]

\* Interpreter.globals and Interpreter.__init__: the global environment with clock
Interpreter_init ==
    [nodes |-> <<>>,
     envs |-> <<[values |-> <<[k |-> "clock", v |-> NativeV]>>, enclosing |-> 0]>>,
     insts |-> <<>>, environment |-> Globals, locals |-> <<>>, out |-> <<>>,
     clock |-> 0, v |-> NoneV, vs |-> <<>>, ctl |-> "ok", emsg |-> "", etok |-> "",
     trace |-> <<>>, frame |-> 0, nframes |-> 0, blocks |-> <<>>, binds |-> <<>>]

Interpreter_is_truthy(obj) == ~(obj.t = "nil") /\ ~(obj.t = "bool" /\ obj.n = 0)

\* Python's == alone, for which True == 1.0 and False == 0.0
Interpreter_is_equal_plain(left, right) ==
    IF left.t \in {"bool", "num"} /\ right.t \in {"bool", "num"}
    THEN left.n * right.d = right.n * left.d
    ELSE left = right

Interpreter_is_equal(left, right) ==
    IF left.t = "nil" /\ right.t = "nil" THEN TRUE
    ELSE IF left.t = "nil" THEN FALSE
    ELSE IF left.t = right.t THEN left = right ELSE FALSE

\* the digits of r / d after the point, r < d; the expansion ends for the
\* numbers the model prints
RECURSIVE FractionDigits(_, _)
FractionDigits(r, d) ==
    IF r = 0 THEN ""
    ELSE ToString((r * 10) \div d) \o FractionDigits((r * 10) % d, d)

\* str(float) without the suffix ".0"
FloatStr(val) ==
    IF val.d = 1 THEN ToString(val.n)
    ELSE (IF val.n < 0 THEN "-" ELSE "") \o ToString(Abs(val.n) \div val.d) \o "."
         \o FractionDigits(Abs(val.n) % val.d, val.d)

Interpreter_stringify(I, val) ==
    CASE val.t = "nil" -> "nil"
      [] val.t = "num" -> FloatStr(val)
      [] val.t = "native" -> "<native fn>"
      [] val.t = "bool" -> IF val.n = 1 THEN "true" ELSE "false"
      [] val.t = "str" -> val.s
      \* Class.__repr__, Instance.__repr__
      [] val.t = "class" -> I.nodes[val.n].name
      [] val.t = "inst" -> I.nodes[I.insts[val.n].kclass].name \o " instance"
      \* object.__repr__ of a Function, without the address
      [] val.t = "fun" -> "<expr.Function object>"

\* the environments Environment.get looks into, in order, from e for name
RECURSIVE Consulted(_, _, _)
Consulted(envs, e, name) ==
    IF DictHas(envs[e].values, name) \/ envs[e].enclosing = 0 THEN <<e>>
    ELSE <<e>> \o Consulted(envs, envs[e].enclosing, name)

\* a lookup that ignores the resolved distance and searches the chain of the
\* current environment (dynamic scope)
Interpreter_lookup_variable_dynamic(I, name, expr) ==
    IF Environment_get_where(I.envs, I.environment, name) = 0
    THEN Raise(I, name, "Undefined variable '" \o name \o "'.")
    ELSE LET value == Environment_get(I.envs, I.environment, name)
         IN  Log(Ret(I, value), "read", expr, I.environment, value,
                 Consulted(I.envs, I.environment, name), name)

Interpreter_lookup_variable(I, name, expr) ==
    IF DictHas(I.locals, expr)
    THEN LET distance == DictGet(I.locals, expr)
             where == Environment_ancestor(I.envs, I.environment, distance)
         IN  IF where = 0 THEN HostError(I, "AttributeError")
             ELSE LET value == Environment_get_at(I.envs, I.environment, distance, name)
                  IN  Log(Ret(I, value), "read", expr, I.environment, value, <<where>>, name)
    ELSE IF Environment_get_where(I.envs, Globals, name) = 0
         THEN Raise(I, name, "Undefined variable '" \o name \o "'.")
         ELSE LET value == Environment_get(I.envs, Globals, name)
              IN  Log(Ret(I, value), "read", expr, I.environment, value,
                      Consulted(I.envs, Globals, name), name)

RECURSIVE Interpreter_evaluate(_, _), Interpreter_visit(_, _),
          Interpreter_arguments_for(_, _, _, _), Interpreter_statements_for(_, _, _),
          Interpreter_execute_block(_, _, _), Interpreter_while(_, _),
          Function_call(_, _, _), Class_call(_, _, _)

\* a bind that puts the new environment into the method itself and returns it
Function_bind_in_place(I, f, instance) ==
    LET fn == I.nodes[f]
        env == Len(I.envs) + 1
        envs == Environment_define(Append(I.envs, Environment(fn.closure)), env, "this",
                                   instance)
        I1 == [I EXCEPT !.envs = envs, !.nodes[f].closure = env]
        I2 == [I1 EXCEPT !.binds = Append(@, [method |-> f, instance |-> instance,
                                              value |-> FunV(f), env |-> env,
                                              at |-> Len(I.trace) + 1,
                                              nodes |-> I.nodes, envs |-> I.envs,
                                              nodes_after |-> I1.nodes,
                                              envs_after |-> I1.envs])]
    IN  Log(Ret(I2, FunV(f)), "bind", f, env, instance, <<f, fn.closure>>, fn.name)

\* Function.bind: a new environment holding "this", and a new Function object on it
Function_bind(I, f, instance) ==
    LET fn == I.nodes[f]
        env == Len(I.envs) + 1
        envs == Environment_define(Append(I.envs, Environment(fn.closure)), env, "this",
                                   instance)
        bound == Len(I.nodes) + 1
        I1 == [I EXCEPT !.envs = envs,
                  !.nodes = Append(@, Function(fn.name, fn.line, fn.params, fn.a, env,
                                               fn.is_initializer))]
        I2 == [I1 EXCEPT !.binds = Append(@, [method |-> f, instance |-> instance,
                                              value |-> FunV(bound), env |-> env,
                                              at |-> Len(I.trace) + 1,
                                              nodes |-> I.nodes, envs |-> I.envs,
                                              nodes_after |-> I1.nodes,
                                              envs_after |-> I1.envs])]
    IN  Log(Ret(I2, FunV(bound)), "bind", bound, env, instance, <<f, fn.closure>>, fn.name)

RECURSIVE DefineParams(_, _, _, _, _)
DefineParams(envs, env, params, arguments, i) ==
    IF i > Len(params) THEN envs
    ELSE DefineParams(Environment_define(envs, env, params[i], arguments[i]), env, params,
                      arguments, i + 1)

\* Function.__call__
Function_call(I, f, arguments) ==
    LET fn == I.nodes[f]
        env == Len(I.envs) + 1
        fr == I.nframes + 1
        I1 == [I EXCEPT !.envs = DefineParams(Append(@, Environment(fn.closure)), env,
                                              fn.params, arguments, 1),
                        !.frame = fr, !.nframes = fr]
        I2 == Log(I1, "call", f, env, NoneV, <<fn.closure>>, fn.name)
        B == Interpreter_execute_block(I2, I.nodes[fn.a].list, env)
        leave(X, value, how) ==
            [Log(Ret(X, value), "exit", f, env, value, <<fn.closure>>, how)
                EXCEPT !.frame = I.frame]
    IN  IF B.ctl = "ReturnException" THEN leave(B, B.v, "ReturnException")
        ELSE IF B.ctl # "ok" THEN [B EXCEPT !.frame = I.frame]
        ELSE IF fn.is_initializer /\ fn.closure # 0
        THEN leave(B, Environment_get_at(B.envs, fn.closure, 0, "this"), "end")
        ELSE leave(B, NoneV, "end")

\* Class.__call__
Class_call(I, klass, arguments) ==
    LET inst == Len(I.insts) + 1
        I1 == Log([I EXCEPT !.insts = Append(@, [kclass |-> klass, fields |-> <<>>])],
                  "new", klass, I.environment, InstV(inst), <<>>, "")
        initializer == Class_find_method(I1.nodes, klass, "init")
        bound == Function_bind(I1, initializer, InstV(inst))
        R == Function_call(bound, bound.v.n, arguments)
        done(X) == Log(Ret(X, InstV(inst)), "made", klass, X.environment, InstV(inst),
                       <<initializer>>, "")
    IN  IF initializer # 0
        THEN IF R.ctl # "ok" THEN R ELSE done(R)
        ELSE done(I1)

\* a get that looks for a method before it looks at the fields
Instance_get_method_first(I, inst, name) ==
    LET fields == I.insts[inst].fields
        method == Class_find_method(I.nodes, I.insts[inst].kclass, name)
    IN  IF method # 0 THEN Function_bind(I, method, InstV(inst))
        ELSE IF DictHas(fields, name)
        THEN Log(Ret(I, DictGet(fields, name)), "field", inst, I.environment,
                 DictGet(fields, name), <<>>, name)
        ELSE Raise(I, name, "Undefined property '" \o name \o "'.")

\* Instance.get
Instance_get(I, inst, name) ==
    LET fields == I.insts[inst].fields
        method == Class_find_method(I.nodes, I.insts[inst].kclass, name)
    IN  IF DictHas(fields, name)
        THEN Log(Ret(I, DictGet(fields, name)), "field", inst, I.environment,
                 DictGet(fields, name), <<>>, name)
        ELSE IF method # 0 THEN Function_bind(I, method, InstV(inst))
        ELSE Raise(I, name, "Undefined property '" \o name \o "'.")

\* Instance.set
Instance_set(I, inst, name, value) ==
    Log([I EXCEPT !.insts[inst].fields = DictSet(@, name, value)], "set", inst,
        I.environment, value, <<>>, name)

\* arithmetic and comparison of floats, as exact rationals
NumAdd(l, r) == NumV(l.n * r.d + r.n * l.d, l.d * r.d)

NumSub(l, r) == NumV(l.n * r.d - r.n * l.d, l.d * r.d)

NumMul(l, r) == NumV(l.n * r.n, l.d * r.d)

NumDiv(l, r) == IF r.n < 0 THEN NumV(-(l.n * r.d), l.d * (-r.n)) ELSE NumV(l.n * r.d, l.d * r.n)

NumLess(l, r) == l.n * r.d < r.n * l.d

Interpreter_visit_Unary(I, expr) ==
    LET e == I.nodes[expr]
        R == Interpreter_evaluate(I, e.a)
    IN  IF R.ctl # "ok" THEN R
        ELSE CASE e.op = "BANG" -> Ret(R, BoolV(~Interpreter_is_truthy(R.v)))
               [] e.op = "MINUS" ->
                    \* _check_number_operand
                    IF R.v.t = "num" THEN Ret(R, NumV(-R.v.n, R.v.d))
                    ELSE Raise(R, e.name, "Operand must be a number")
               [] OTHER -> Ret(R, NoneV)

Interpreter_visit_Binary(I, expr) ==
    LET e == I.nodes[expr]
        L == Interpreter_evaluate(I, e.a)
        R == Interpreter_evaluate(L, e.b)
        left == L.v
        right == R.v
        \* _check_number_operands
        numbers == left.t = "num" /\ right.t = "num"
        checked(value) == IF numbers THEN Ret(R, value)
                          ELSE Raise(R, e.name, "Operands must be numbers")
    IN  IF L.ctl # "ok" THEN L
        ELSE IF R.ctl # "ok" THEN R
        ELSE CASE e.op = "GREATER" -> checked(BoolV(NumLess(right, left)))
               [] e.op = "GREATER_EQUAL" -> checked(BoolV(~NumLess(left, right)))
               [] e.op = "LESS" -> checked(BoolV(NumLess(left, right)))
               [] e.op = "LESS_EQUAL" -> checked(BoolV(~NumLess(right, left)))
               [] e.op = "MINUS" -> checked(NumSub(left, right))
               [] e.op = "PLUS" ->
                    IF numbers THEN Ret(R, NumAdd(left, right))
                    ELSE IF left.t = "str" /\ right.t = "str" THEN Ret(R, StrV(left.s \o right.s))
                    ELSE Raise(R, e.name, "Operands must be two numbers or two strings.")
               [] e.op = "SLASH" ->
                    IF ~numbers THEN Raise(R, e.name, "Operands must be numbers")
                    \* Python: float division by zero raises
                    ELSE IF right.n = 0 THEN HostError(R, "ZeroDivisionError")
                    ELSE Ret(R, NumDiv(left, right))
               [] e.op = "STAR" -> checked(NumMul(left, right))
               [] e.op = "BANG_EQUAL" -> Ret(R, BoolV(~Interpreter_is_equal(left, right)))
               [] e.op = "EQUAL_EQUAL" -> Ret(R, BoolV(Interpreter_is_equal(left, right)))
               [] OTHER -> Ret(R, NoneV)

Interpreter_visit_Print(I, stmt) ==
    LET R == Interpreter_evaluate(I, I.nodes[stmt].a)
    IN  IF R.ctl # "ok" THEN R
        ELSE Ret([R EXCEPT !.out = Append(@, Interpreter_stringify(R, R.v))], NoneV)

Interpreter_visit_Var(I, stmt) ==
    LET R == IF I.nodes[stmt].a # 0 THEN Interpreter_evaluate(I, I.nodes[stmt].a)
             ELSE Ret(I, NoneV)
    IN  IF R.ctl # "ok" THEN R
        ELSE Log(Ret([R EXCEPT !.envs = Environment_define(@, R.environment,
                                                           I.nodes[stmt].name, R.v)], NoneV),
                 "define", stmt, R.environment, R.v, <<R.environment>>, I.nodes[stmt].name)

Interpreter_visit_Assign(I, expr) ==
    LET name == I.nodes[expr].name
        R == Interpreter_evaluate(I, I.nodes[expr].a)
        value == R.v
    IN  IF R.ctl # "ok" THEN R
        ELSE IF DictHas(R.locals, expr)
        THEN LET distance == DictGet(R.locals, expr)
                 where == Environment_ancestor(R.envs, R.environment, distance)
             IN  IF where = 0 THEN HostError(R, "AttributeError")
                 ELSE Log(Ret([R EXCEPT !.envs = Environment_assign_at(@, R.environment,
                                                     distance, name, value)], value),
                          "write", expr, R.environment, value, <<where>>, name)
        ELSE LET where == Environment_assign_where(R.envs, Globals, name)
             IN  IF where = 0 THEN Raise(R, name, "Undefined variable '" \o name \o "'.")
                 ELSE Log(Ret([R EXCEPT !.envs = Environment_assign(@, Globals, name, value)],
                              value),
                          "write", expr, R.environment, value, <<where>>, name)

Interpreter_visit_Logical(I, expr) ==
    LET e == I.nodes[expr]
        L == Interpreter_evaluate(I, e.a)
    IN  IF L.ctl # "ok" THEN L
        ELSE IF e.op = "OR" /\ Interpreter_is_truthy(L.v) THEN L
        ELSE IF e.op # "OR" /\ ~Interpreter_is_truthy(L.v) THEN L
        ELSE Interpreter_evaluate(L, e.b)

Interpreter_arguments_for(I, arguments, i, values) ==
    IF i > Len(arguments) THEN [I EXCEPT !.vs = values]
    ELSE LET R == Interpreter_evaluate(I, arguments[i])
         IN  IF R.ctl # "ok" THEN R
             ELSE Interpreter_arguments_for(R, arguments, i + 1, Append(values, R.v))

\* a call that checks its callee before it evaluates the arguments
Interpreter_visit_Call_early(I, expr) ==
    LET e == I.nodes[expr]
        C == Interpreter_evaluate(I, e.a)
        callee == C.v
        A == Interpreter_arguments_for(C, e.list, 1, <<>>)
        arguments == A.vs
        arity == IF callee.t = "native" THEN 0 ELSE A.nodes[callee.n].arity
        K == Log(A, "check", expr, A.environment, callee, arguments, "")
    IN  IF C.ctl # "ok" THEN C
        ELSE IF callee.t \notin {"fun", "class", "native"}
        THEN Raise(Log(C, "check", expr, C.environment, callee, <<>>, ""), e.name,
                   "Can only call functions and classes")
        ELSE IF A.ctl # "ok" THEN A
        ELSE IF arity # Len(arguments)
        THEN Raise(K, e.name, "Expected " \o ToString(arity) \o " arguments but got "
                              \o ToString(Len(arguments)) \o ".")
        ELSE IF callee.t = "fun" THEN Function_call(K, callee.n, arguments)
        ELSE IF callee.t = "class" THEN Class_call(K, callee.n, arguments)
        ELSE Ret(K, NumV(K.clock, 1))

Interpreter_visit_Call(I, expr) ==
    LET e == I.nodes[expr]
        C == Interpreter_evaluate(I, e.a)
        callee == C.v
        A == Interpreter_arguments_for(C, e.list, 1, <<>>)
        arguments == A.vs
        arity == IF callee.t = "native" THEN 0 ELSE A.nodes[callee.n].arity
        \* the callee and the arguments are evaluated: the checks start
        K == Log(A, "check", expr, A.environment, callee, arguments, "")
    IN  IF C.ctl # "ok" THEN C
        ELSE IF A.ctl # "ok" THEN A
        ELSE IF callee.t \notin {"fun", "class", "native"}
        THEN Raise(K, e.name, "Can only call functions and classes")
        ELSE IF arity # Len(arguments)
        THEN Raise(K, e.name, "Expected " \o ToString(arity) \o " arguments but got "
                              \o ToString(Len(arguments)) \o ".")
        ELSE IF callee.t = "fun" THEN Function_call(K, callee.n, arguments)
        ELSE IF callee.t = "class" THEN Class_call(K, callee.n, arguments)
        \* the built-in: time.time()
        ELSE Ret(K, NumV(K.clock, 1))

Interpreter_visit_Get(I, expr) ==
    LET R == Interpreter_evaluate(I, I.nodes[expr].a)
    IN  IF R.ctl # "ok" THEN R
        ELSE IF R.v.t = "inst"
        THEN Instance_get(Log(R, "get", expr, R.environment, R.v, <<>>, I.nodes[expr].name),
                          R.v.n, I.nodes[expr].name)
        ELSE Raise(R, I.nodes[expr].name, "Only instances have properties.")

Interpreter_visit_Set(I, expr) ==
    LET O == Interpreter_evaluate(I, I.nodes[expr].a)
        V == Interpreter_evaluate(O, I.nodes[expr].b)
    IN  IF O.ctl # "ok" THEN O
        ELSE IF O.v.t # "inst" THEN Raise(O, I.nodes[expr].name, "Only instances have fields.")
        ELSE IF V.ctl # "ok" THEN V
        ELSE Ret(Instance_set(V, O.v.n, I.nodes[expr].name, V.v), V.v)

Interpreter_visit_Super(I, expr) ==
    IF ~DictHas(I.locals, expr) THEN HostError(I, "AssertionError")
    ELSE LET distance == DictGet(I.locals, expr)
             at_super == Environment_ancestor(I.envs, I.environment, distance)
             at_this == Environment_ancestor(I.envs, I.environment, distance - 1)
             superclass == Environment_get_at(I.envs, I.environment, distance, "super")
             obj == Environment_get_at(I.envs, I.environment, distance - 1, "this")
             method == Class_find_method(I.nodes, superclass.n, I.nodes[expr].method)
             I1 == Log(I, "read", expr, I.environment, superclass, <<at_super, at_this>>,
                       "super")
         IN  IF at_super = 0 \/ at_this = 0 \/ superclass.t # "class"
             THEN HostError(I, "AttributeError")
             ELSE IF method # 0 THEN Function_bind(I1, method, obj)
             ELSE Raise(I1, I.nodes[expr].method,
                        "Undefined property '" \o I.nodes[expr].method \o "'.")

Interpreter_statements_for(I, statements, i) ==
    IF i > Len(statements) THEN I
    ELSE LET R == Interpreter_evaluate(I, statements[i])
         IN  IF R.ctl # "ok" THEN R ELSE Interpreter_statements_for(R, statements, i + 1)

\* an _execute_block without the finally: the environment is restored at the
\* end of the loop only
Interpreter_execute_block_no_finally(I, statements, environment) ==
    LET previous == I.environment
        R == Interpreter_statements_for([I EXCEPT !.environment = environment], statements, 1)
        X == IF R.ctl = "ok" THEN [R EXCEPT !.environment = previous] ELSE R
    IN  [X EXCEPT !.blocks = Append(@, [previous |-> previous, environment |-> environment,
                                        current |-> X.environment, how |-> R.ctl,
                                        from |-> Len(I.trace), till |-> Len(R.trace)])]

\* try / finally: the previous environment is restored however the block is left
Interpreter_execute_block(I, statements, environment) ==
    LET previous == I.environment
        R == Interpreter_statements_for([I EXCEPT !.environment = environment], statements, 1)
        X == [R EXCEPT !.environment = previous]
    IN  [X EXCEPT !.blocks = Append(@, [previous |-> previous, environment |-> environment,
                                        current |-> X.environment, how |-> R.ctl,
                                        from |-> Len(I.trace), till |-> Len(R.trace)])]

Interpreter_visit_Block(I, stmt) ==
    LET R == Interpreter_execute_block(
                 [I EXCEPT !.envs = Append(@, Environment(I.environment))],
                 I.nodes[stmt].list, Len(I.envs) + 1)
    IN  IF R.ctl # "ok" THEN R ELSE Ret(R, NoneV)

Interpreter_visit_IfStmt(I, stmt) ==
    LET e == I.nodes[stmt]
        C == Interpreter_evaluate(I, e.a)
        R == IF Interpreter_is_truthy(C.v) THEN Interpreter_evaluate(C, e.b)
             ELSE IF e.c # 0 THEN Interpreter_evaluate(C, e.c)
             ELSE C
    IN  IF C.ctl # "ok" THEN C
        ELSE IF R.ctl # "ok" THEN R
        ELSE Ret(R, NoneV)

Interpreter_while(I, stmt) ==
    LET C == Interpreter_evaluate(I, I.nodes[stmt].a)
        B == Interpreter_evaluate(C, I.nodes[stmt].b)
    IN  IF C.ctl # "ok" THEN C
        ELSE IF ~Interpreter_is_truthy(C.v) THEN Ret(C, NoneV)
        ELSE IF B.ctl # "ok" THEN B
        ELSE Interpreter_while(B, stmt)

\* a loop that takes a ReturnException for the end of the loop
Interpreter_visit_WhileStmt_catch(I, stmt) ==
    LET R == Interpreter_while(I, stmt)
    IN  IF R.ctl = "ReturnException" THEN Ret(R, NoneV) ELSE R

Interpreter_visit_WhileStmt(I, stmt) == Interpreter_while(I, stmt)

\* a declaration that captures a copy of the current environment
Interpreter_visit_Function_copy(I, stmt) ==
    LET s == I.nodes[stmt]
        new_function == Len(I.nodes) + 1
        copy == Len(I.envs) + 1
        I1 == [I EXCEPT !.nodes = Append(@, Function(s.name, s.line, s.params, s.a, copy,
                                                     s.is_initializer)),
                        !.envs = Environment_define(Append(@, @[I.environment]),
                                                    I.environment, s.name,
                                                    FunV(new_function))]
    IN  Log(Ret(I1, NoneV), "function", new_function, I.environment, FunV(new_function),
            <<stmt>>, s.name)

Interpreter_visit_Function(I, stmt) ==
    LET s == I.nodes[stmt]
        new_function == Len(I.nodes) + 1
        I1 == [I EXCEPT !.nodes = Append(@, Function(s.name, s.line, s.params, s.a,
                                                     I.environment, s.is_initializer)),
                        !.envs = Environment_define(@, I.environment, s.name,
                                                    FunV(new_function))]
    IN  Log(Ret(I1, NoneV), "function", new_function, I.environment, FunV(new_function),
            <<stmt>>, s.name)

Interpreter_visit_ReturnStmt(I, stmt) ==
    LET R == IF I.nodes[stmt].a # 0 THEN Interpreter_evaluate(I, I.nodes[stmt].a)
             ELSE Ret(I, NoneV)
    IN  IF R.ctl # "ok" THEN R
        ELSE [Log(R, "return", stmt, R.environment, R.v, <<>>, "")
                 EXCEPT !.ctl = "ReturnException"]

\* Class.update_arity is called by visit_Class; the arity is that of the class's
\* initializer, as in Class.__init__
Class_update_arity(nodes, klass) ==
    LET initializer == Class_find_method(nodes, klass, "init")
    IN  [nodes EXCEPT ![klass].arity = IF initializer = 0 THEN 0 ELSE nodes[initializer].arity]

\* method.closure = ..., method.is_initializer = True for each method of the class
RECURSIVE SetClosures(_, _, _, _)
SetClosures(nodes, methods, i, env) ==
    IF i > Len(methods) THEN nodes
    ELSE SetClosures([nodes EXCEPT ![methods[i]].closure = env,
                                   ![methods[i]].is_initializer =
                                       IF nodes[methods[i]].name = "init" THEN TRUE ELSE @],
                     methods, i + 1, env)

Interpreter_visit_Class(I, stmt) ==
    LET s == I.nodes[stmt]
        S == Interpreter_evaluate(I, s.a)
        superclass == S.v
        I1 == IF s.a # 0
              THEN [S EXCEPT !.nodes = Class_update_arity(
                                 [S.nodes EXCEPT ![stmt].superclass_obj = superclass.n], stmt)]
              ELSE I
        I2 == [I1 EXCEPT !.envs = Environment_define(@, I1.environment, s.name, NoneV)]
        I3 == IF s.a # 0
              THEN [I2 EXCEPT !.envs = Environment_define(
                                           Append(@, Environment(I2.environment)),
                                           Len(I2.envs) + 1, "super", superclass),
                              !.environment = Len(I2.envs) + 1]
              ELSE I2
        I4 == [I3 EXCEPT !.nodes = SetClosures(@, DictValues(s.methods), 1, I3.environment)]
        I5 == IF s.a # 0
              THEN [I4 EXCEPT !.environment = I4.envs[I4.environment].enclosing]
              ELSE I4
        I6 == [I5 EXCEPT !.envs = Environment_assign(@, I5.environment, s.name, ClassV(stmt))]
    IN  IF s.a # 0 /\ S.ctl # "ok" THEN S
        ELSE IF s.a # 0 /\ superclass.t # "class"
        THEN Raise(S, I.nodes[s.a].name, "Superclass must be a class.")
        ELSE Log(Ret(I6, NoneV), "class", stmt, I6.environment, ClassV(stmt),
                 <<I3.environment>>, s.name)

StmtKinds ==
    {"Expression", "Print", "Var", "Block", "IfStmt", "WhileStmt", "Function",
     "ReturnStmt", "Class"}

\* ExprVisitor.visit (expr.py): dispatch on the class of the object
Interpreter_visit(I, n) ==
    LET kind == I.nodes[n].kind
    IN  CASE kind = "Literal" -> Ret(I, I.nodes[n].val)
          [] kind = "Grouping" -> Interpreter_evaluate(I, I.nodes[n].a)
          [] kind = "Unary" -> Interpreter_visit_Unary(I, n)
          [] kind = "Binary" -> Interpreter_visit_Binary(I, n)
          [] kind = "Expression" ->
                LET R == Interpreter_evaluate(I, I.nodes[n].a)
                IN  IF R.ctl # "ok" THEN R ELSE Ret(R, NoneV)
          [] kind = "Print" -> Interpreter_visit_Print(I, n)
          [] kind = "Var" -> Interpreter_visit_Var(I, n)
          [] kind = "Variable" -> Interpreter_lookup_variable(I, I.nodes[n].name, n)
          [] kind = "Assign" -> Interpreter_visit_Assign(I, n)
          [] kind = "Logical" -> Interpreter_visit_Logical(I, n)
          [] kind = "Call" -> Interpreter_visit_Call(I, n)
          [] kind = "Get" -> Interpreter_visit_Get(I, n)
          [] kind = "Set" -> Interpreter_visit_Set(I, n)
          [] kind = "This" -> Interpreter_lookup_variable(I, I.nodes[n].name, n)
          [] kind = "Super" -> Interpreter_visit_Super(I, n)
          [] kind = "Block" -> Interpreter_visit_Block(I, n)
          [] kind = "IfStmt" -> Interpreter_visit_IfStmt(I, n)
          [] kind = "WhileStmt" -> Interpreter_visit_WhileStmt(I, n)
          [] kind = "Function" -> Interpreter_visit_Function(I, n)
          [] kind = "ReturnStmt" -> Interpreter_visit_ReturnStmt(I, n)
          [] kind = "Class" -> Interpreter_visit_Class(I, n)

\* _evaluate; the start of every statement is recorded in the trace
Interpreter_evaluate(I, n) ==
    IF I.nodes[n].kind \in StmtKinds
    THEN Interpreter_visit(Log(I, "stmt", n, I.environment, NoneV, <<>>, I.nodes[n].kind), n)
    ELSE Interpreter_visit(I, n)

(***************************************************************************)
(* The source texts the driver is run on, each a sequence of one-character *)
(* strings.                                                                *)
(***************************************************************************)
\* print 1 + 2;
AddProgram ==
    <<"p", "r", "i", "n", "t", " ", "1", " ", "+", " ", "2", ";">>

\* var a = "global"; { fun show() { print a; } show(); var a = "local"; show(); }
ShadowProgram ==
    <<"v", "a", "r", " ", "a", " ", "=", " ", "\"", "g", "l", "o", "b", "a", "l", "\"", ";",
      " ", "{", " ", "f", "u", "n", " ", "s", "h", "o", "w", "(", ")", " ", "{", " ", "p",
      "r", "i", "n", "t", " ", "a", ";", " ", "}", " ", "s", "h", "o", "w", "(", ")", ";",
      " ", "v", "a", "r", " ", "a", " ", "=", " ", "\"", "l", "o", "c", "a", "l", "\"", ";",
      " ", "s", "h", "o", "w", "(", ")", ";", " ", "}">>

\* { var a = "outer"; { fun show() { print a; } show(); var a = "inner"; show(); } }
LocalShadowProgram ==
    <<"{", " ", "v", "a", "r", " ", "a", " ", "=", " ", "\"", "o", "u", "t", "e", "r", "\"",
      ";", " ", "{", " ", "f", "u", "n", " ", "s", "h", "o", "w", "(", ")", " ", "{", " ",
      "p", "r", "i", "n", "t", " ", "a", ";", " ", "}", " ", "s", "h", "o", "w", "(", ")",
      ";", " ", "v", "a", "r", " ", "a", " ", "=", " ", "\"", "i", "n", "n", "e", "r", "\"",
      ";", " ", "s", "h", "o", "w", "(", ")", ";", " ", "}", " ", "}">>

\* fun makeCounter() { var i = 0; fun count() { i = i + 1; print i; } return count; } var c = makeCounter(); c(); c(); var d = makeCounter(); d(); c();
CounterProgram ==
    <<"f", "u", "n", " ", "m", "a", "k", "e", "C", "o", "u", "n", "t", "e", "r", "(", ")",
      " ", "{", " ", "v", "a", "r", " ", "i", " ", "=", " ", "0", ";", " ", "f", "u", "n",
      " ", "c", "o", "u", "n", "t", "(", ")", " ", "{", " ", "i", " ", "=", " ", "i", " ",
      "+", " ", "1", ";", " ", "p", "r", "i", "n", "t", " ", "i", ";", " ", "}", " ", "r",
      "e", "t", "u", "r", "n", " ", "c", "o", "u", "n", "t", ";", " ", "}", " ", "v", "a",
      "r", " ", "c", " ", "=", " ", "m", "a", "k", "e", "C", "o", "u", "n", "t", "e", "r",
      "(", ")", ";", " ", "c", "(", ")", ";", " ", "c", "(", ")", ";", " ", "v", "a", "r",
      " ", "d", " ", "=", " ", "m", "a", "k", "e", "C", "o", "u", "n", "t", "e", "r", "(",
      ")", ";", " ", "d", "(", ")", ";", " ", "c", "(", ")", ";">>

\* { var x = 1; fun g() { print x; } fun s(v) { x = v; } g(); s(2); g(); print x; x = 3; g(); }
ShareProgram ==
    <<"{", " ", "v", "a", "r", " ", "x", " ", "=", " ", "1", ";", " ", "f", "u", "n", " ",
      "g", "(", ")", " ", "{", " ", "p", "r", "i", "n", "t", " ", "x", ";", " ", "}", " ",
      "f", "u", "n", " ", "s", "(", "v", ")", " ", "{", " ", "x", " ", "=", " ", "v", ";",
      " ", "}", " ", "g", "(", ")", ";", " ", "s", "(", "2", ")", ";", " ", "g", "(", ")",
      ";", " ", "p", "r", "i", "n", "t", " ", "x", ";", " ", "x", " ", "=", " ", "3", ";",
      " ", "g", "(", ")", ";", " ", "}">>

\* class Foo { init() { return; } } var f = Foo(); print f; print f.init();
InitReturnProgram ==
    <<"c", "l", "a", "s", "s", " ", "F", "o", "o", " ", "{", " ", "i", "n", "i", "t", "(",
      ")", " ", "{", " ", "r", "e", "t", "u", "r", "n", ";", " ", "}", " ", "}", " ", "v",
      "a", "r", " ", "f", " ", "=", " ", "F", "o", "o", "(", ")", ";", " ", "p", "r", "i",
      "n", "t", " ", "f", ";", " ", "p", "r", "i", "n", "t", " ", "f", ".", "i", "n", "i",
      "t", "(", ")", ";">>

\* class P { init(x) { this.x = x; } } var p = P(1); print p.init(2) == p; print p.x;
InitEndProgram ==
    <<"c", "l", "a", "s", "s", " ", "P", " ", "{", " ", "i", "n", "i", "t", "(", "x", ")",
      " ", "{", " ", "t", "h", "i", "s", ".", "x", " ", "=", " ", "x", ";", " ", "}", " ",
      "}", " ", "v", "a", "r", " ", "p", " ", "=", " ", "P", "(", "1", ")", ";", " ", "p",
      "r", "i", "n", "t", " ", "p", ".", "i", "n", "i", "t", "(", "2", ")", " ", "=", "=",
      " ", "p", ";", " ", "p", "r", "i", "n", "t", " ", "p", ".", "x", ";">>

\* class Doughnut { cook() { print "Fry until golden brown."; } } class BostonCream < Doughnut {} BostonCream().cook();
DoughnutProgram ==
    <<"c", "l", "a", "s", "s", " ", "D", "o", "u", "g", "h", "n", "u", "t", " ", "{", " ",
      "c", "o", "o", "k", "(", ")", " ", "{", " ", "p", "r", "i", "n", "t", " ", "\"", "F",
      "r", "y", " ", "u", "n", "t", "i", "l", " ", "g", "o", "l", "d", "e", "n", " ", "b",
      "r", "o", "w", "n", ".", "\"", ";", " ", "}", " ", "}", " ", "c", "l", "a", "s", "s",
      " ", "B", "o", "s", "t", "o", "n", "C", "r", "e", "a", "m", " ", "<", " ", "D", "o",
      "u", "g", "h", "n", "u", "t", " ", "{", "}", " ", "B", "o", "s", "t", "o", "n", "C",
      "r", "e", "a", "m", "(", ")", ".", "c", "o", "o", "k", "(", ")", ";">>

\* class A { method() { print "A method"; } } class B < A { method() { print "B method"; } test() { super.method(); } } class C < B {} C().test();
SuperProgram ==
    <<"c", "l", "a", "s", "s", " ", "A", " ", "{", " ", "m", "e", "t", "h", "o", "d", "(",
      ")", " ", "{", " ", "p", "r", "i", "n", "t", " ", "\"", "A", " ", "m", "e", "t", "h",
      "o", "d", "\"", ";", " ", "}", " ", "}", " ", "c", "l", "a", "s", "s", " ", "B", " ",
      "<", " ", "A", " ", "{", " ", "m", "e", "t", "h", "o", "d", "(", ")", " ", "{", " ",
      "p", "r", "i", "n", "t", " ", "\"", "B", " ", "m", "e", "t", "h", "o", "d", "\"", ";",
      " ", "}", " ", "t", "e", "s", "t", "(", ")", " ", "{", " ", "s", "u", "p", "e", "r",
      ".", "m", "e", "t", "h", "o", "d", "(", ")", ";", " ", "}", " ", "}", " ", "c", "l",
      "a", "s", "s", " ", "C", " ", "<", " ", "B", " ", "{", "}", " ", "C", "(", ")", ".",
      "t", "e", "s", "t", "(", ")", ";">>

\* class A { m() { print "A.m"; } } class B < A { m() { print "B.m"; } t() { super.m(); print this; } } B().t();
SuperDirectProgram ==
    <<"c", "l", "a", "s", "s", " ", "A", " ", "{", " ", "m", "(", ")", " ", "{", " ", "p",
      "r", "i", "n", "t", " ", "\"", "A", ".", "m", "\"", ";", " ", "}", " ", "}", " ", "c",
      "l", "a", "s", "s", " ", "B", " ", "<", " ", "A", " ", "{", " ", "m", "(", ")", " ",
      "{", " ", "p", "r", "i", "n", "t", " ", "\"", "B", ".", "m", "\"", ";", " ", "}", " ",
      "t", "(", ")", " ", "{", " ", "s", "u", "p", "e", "r", ".", "m", "(", ")", ";", " ",
      "p", "r", "i", "n", "t", " ", "t", "h", "i", "s", ";", " ", "}", " ", "}", " ", "B",
      "(", ")", ".", "t", "(", ")", ";">>

\* class Z { m() { print "Z.m"; } } class A < Z {} class B < A { t() { super.m(); } } B().t();
SuperChainProgram ==
    <<"c", "l", "a", "s", "s", " ", "Z", " ", "{", " ", "m", "(", ")", " ", "{", " ", "p",
      "r", "i", "n", "t", " ", "\"", "Z", ".", "m", "\"", ";", " ", "}", " ", "}", " ", "c",
      "l", "a", "s", "s", " ", "A", " ", "<", " ", "Z", " ", "{", "}", " ", "c", "l", "a",
      "s", "s", " ", "B", " ", "<", " ", "A", " ", "{", " ", "t", "(", ")", " ", "{", " ",
      "s", "u", "p", "e", "r", ".", "m", "(", ")", ";", " ", "}", " ", "}", " ", "B", "(",
      ")", ".", "t", "(", ")", ";">>

\* class A {} class B < A { t() { super.m(); } } B().t();
SuperMissingProgram ==
    <<"c", "l", "a", "s", "s", " ", "A", " ", "{", "}", " ", "c", "l", "a", "s", "s", " ",
      "B", " ", "<", " ", "A", " ", "{", " ", "t", "(", ")", " ", "{", " ", "s", "u", "p",
      "e", "r", ".", "m", "(", ")", ";", " ", "}", " ", "}", " ", "B", "(", ")", ".", "t",
      "(", ")", ";">>

\* fun f() { while (true) { if (true) { { return 7; } } print "loop"; } print "no"; } print f(); print "after";
ReturnProgram ==
    <<"f", "u", "n", " ", "f", "(", ")", " ", "{", " ", "w", "h", "i", "l", "e", " ", "(",
      "t", "r", "u", "e", ")", " ", "{", " ", "i", "f", " ", "(", "t", "r", "u", "e", ")",
      " ", "{", " ", "{", " ", "r", "e", "t", "u", "r", "n", " ", "7", ";", " ", "}", " ",
      "}", " ", "p", "r", "i", "n", "t", " ", "\"", "l", "o", "o", "p", "\"", ";", " ", "}",
      " ", "p", "r", "i", "n", "t", " ", "\"", "n", "o", "\"", ";", " ", "}", " ", "p", "r",
      "i", "n", "t", " ", "f", "(", ")", ";", " ", "p", "r", "i", "n", "t", " ", "\"", "a",
      "f", "t", "e", "r", "\"", ";">>

\* fun inner() { return; print "x"; } fun outer() { var r = inner(); print "on"; return r; } print outer();
ReturnNilProgram ==
    <<"f", "u", "n", " ", "i", "n", "n", "e", "r", "(", ")", " ", "{", " ", "r", "e", "t",
      "u", "r", "n", ";", " ", "p", "r", "i", "n", "t", " ", "\"", "x", "\"", ";", " ", "}",
      " ", "f", "u", "n", " ", "o", "u", "t", "e", "r", "(", ")", " ", "{", " ", "v", "a",
      "r", " ", "r", " ", "=", " ", "i", "n", "n", "e", "r", "(", ")", ";", " ", "p", "r",
      "i", "n", "t", " ", "\"", "o", "n", "\"", ";", " ", "r", "e", "t", "u", "r", "n", " ",
      "r", ";", " ", "}", " ", "p", "r", "i", "n", "t", " ", "o", "u", "t", "e", "r", "(",
      ")", ";">>

\* class A { init(x) { this.x = x; } } var a = A(1); var b = A(1); print a == b; print a.x; class N {} print N(); A();
ClassCallProgram ==
    <<"c", "l", "a", "s", "s", " ", "A", " ", "{", " ", "i", "n", "i", "t", "(", "x", ")",
      " ", "{", " ", "t", "h", "i", "s", ".", "x", " ", "=", " ", "x", ";", " ", "}", " ",
      "}", " ", "v", "a", "r", " ", "a", " ", "=", " ", "A", "(", "1", ")", ";", " ", "v",
      "a", "r", " ", "b", " ", "=", " ", "A", "(", "1", ")", ";", " ", "p", "r", "i", "n",
      "t", " ", "a", " ", "=", "=", " ", "b", ";", " ", "p", "r", "i", "n", "t", " ", "a",
      ".", "x", ";", " ", "c", "l", "a", "s", "s", " ", "N", " ", "{", "}", " ", "p", "r",
      "i", "n", "t", " ", "N", "(", ")", ";", " ", "A", "(", ")", ";">>

\* class A { init(x) { this.x = x; } } class B < A {} var b = B(1); print b.x;
InheritInitProgram ==
    <<"c", "l", "a", "s", "s", " ", "A", " ", "{", " ", "i", "n", "i", "t", "(", "x", ")",
      " ", "{", " ", "t", "h", "i", "s", ".", "x", " ", "=", " ", "x", ";", " ", "}", " ",
      "}", " ", "c", "l", "a", "s", "s", " ", "B", " ", "<", " ", "A", " ", "{", "}", " ",
      "v", "a", "r", " ", "b", " ", "=", " ", "B", "(", "1", ")", ";", " ", "p", "r", "i",
      "n", "t", " ", "b", ".", "x", ";">>

\* var a; var b; var c = 1; a = b = c; print a;
AssignChainProgram ==
    <<"v", "a", "r", " ", "a", ";", " ", "v", "a", "r", " ", "b", ";", " ", "v", "a", "r",
      " ", "c", " ", "=", " ", "1", ";", " ", "a", " ", "=", " ", "b", " ", "=", " ", "c",
      ";", " ", "p", "r", "i", "n", "t", " ", "a", ";">>

\* var t = clock(); print t;
ClockProgram ==
    <<"v", "a", "r", " ", "t", " ", "=", " ", "c", "l", "o", "c", "k", "(", ")", ";", " ",
      "p", "r", "i", "n", "t", " ", "t", ";">>

\* print 1; @
ScanErrorProgram ==
    <<"p", "r", "i", "n", "t", " ", "1", ";", " ", "@">>

\* print 1; return;
TopReturnProgram ==
    <<"p", "r", "i", "n", "t", " ", "1", ";", " ", "r", "e", "t", "u", "r", "n", ";">>

\* print (1;
ParseErrorProgram ==
    <<"p", "r", "i", "n", "t", " ", "(", "1", ";">>

\* print nil + 1; print 2;
RuntimeErrorProgram ==
    <<"p", "r", "i", "n", "t", " ", "n", "i", "l", " ", "+", " ", "1", ";", " ", "p", "r",
      "i", "n", "t", " ", "2", ";">>

\* print 1 / 0;
DivideByZeroProgram ==
    <<"p", "r", "i", "n", "t", " ", "1", " ", "/", " ", "0", ";">>

\* (the empty file)
EmptyProgram ==
    <<>>

\* var a = 1;
VarLine ==
    <<"v", "a", "r", " ", "a", " ", "=", " ", "1", ";">>

\* print a;
PrintLine ==
    <<"p", "r", "i", "n", "t", " ", "a", ";">>

\* a = a + 1;
IncrementLine ==
    <<"a", " ", "=", " ", "a", " ", "+", " ", "1", ";">>

\* print b;
UndefinedLine ==
    <<"p", "r", "i", "n", "t", " ", "b", ";">>

\* var = 2;
BadLine ==
    <<"v", "a", "r", " ", "=", " ", "2", ";">>

\* fun t(n) { print n; return n; } t("callee")(t(1), t(2)); print "after";
NotCallableProgram ==
    <<"f", "u", "n", " ", "t", "(", "n", ")", " ", "{", " ", "p", "r", "i", "n", "t", " ",
      "n", ";", " ", "r", "e", "t", "u", "r", "n", " ", "n", ";", " ", "}", " ", "t", "(",
      "\"", "c", "a", "l", "l", "e", "e", "\"", ")", "(", "t", "(", "1", ")", ",", " ", "t",
      "(", "2", ")", ")", ";", " ", "p", "r", "i", "n", "t", " ", "\"", "a", "f", "t", "e",
      "r", "\"", ";">>

\* fun t(n) { print n; return n; } fun f(a) { print "body"; } f(t(1), t(2)); print "after";
ArityProgram ==
    <<"f", "u", "n", " ", "t", "(", "n", ")", " ", "{", " ", "p", "r", "i", "n", "t", " ",
      "n", ";", " ", "r", "e", "t", "u", "r", "n", " ", "n", ";", " ", "}", " ", "f", "u",
      "n", " ", "f", "(", "a", ")", " ", "{", " ", "p", "r", "i", "n", "t", " ", "\"", "b",
      "o", "d", "y", "\"", ";", " ", "}", " ", "f", "(", "t", "(", "1", ")", ",", " ", "t",
      "(", "2", ")", ")", ";", " ", "p", "r", "i", "n", "t", " ", "\"", "a", "f", "t", "e",
      "r", "\"", ";">>

\* class A { init(x) { print "init"; } } A();
ClassArityProgram ==
    <<"c", "l", "a", "s", "s", " ", "A", " ", "{", " ", "i", "n", "i", "t", "(", "x", ")",
      " ", "{", " ", "p", "r", "i", "n", "t", " ", "\"", "i", "n", "i", "t", "\"", ";", " ",
      "}", " ", "}", " ", "A", "(", ")", ";">>

\* clock(1);
NativeArityProgram ==
    <<"c", "l", "o", "c", "k", "(", "1", ")", ";">>

\* class A {} A()();
InstanceCallProgram ==
    <<"c", "l", "a", "s", "s", " ", "A", " ", "{", "}", " ", "A", "(", ")", "(", ")", ";">>

\* class A { m() { return "method"; } } var a = A(); var b = A(); a.m = "field"; print a.m; print b.m(); a.x = 1; a.x = 2; print a.x; print b.x; print "after";
FieldProgram ==
    <<"c", "l", "a", "s", "s", " ", "A", " ", "{", " ", "m", "(", ")", " ", "{", " ", "r",
      "e", "t", "u", "r", "n", " ", "\"", "m", "e", "t", "h", "o", "d", "\"", ";", " ", "}",
      " ", "}", " ", "v", "a", "r", " ", "a", " ", "=", " ", "A", "(", ")", ";", " ", "v",
      "a", "r", " ", "b", " ", "=", " ", "A", "(", ")", ";", " ", "a", ".", "m", " ", "=",
      " ", "\"", "f", "i", "e", "l", "d", "\"", ";", " ", "p", "r", "i", "n", "t", " ", "a",
      ".", "m", ";", " ", "p", "r", "i", "n", "t", " ", "b", ".", "m", "(", ")", ";", " ",
      "a", ".", "x", " ", "=", " ", "1", ";", " ", "a", ".", "x", " ", "=", " ", "2", ";",
      " ", "p", "r", "i", "n", "t", " ", "a", ".", "x", ";", " ", "p", "r", "i", "n", "t",
      " ", "b", ".", "x", ";", " ", "p", "r", "i", "n", "t", " ", "\"", "a", "f", "t", "e",
      "r", "\"", ";">>

\* var a = 1; fun f() { a = 2; print a; nil(); print "no"; } { f(); print "no"; } print "no";
NestedErrorProgram ==
    <<"v", "a", "r", " ", "a", " ", "=", " ", "1", ";", " ", "f", "u", "n", " ", "f", "(",
      ")", " ", "{", " ", "a", " ", "=", " ", "2", ";", " ", "p", "r", "i", "n", "t", " ",
      "a", ";", " ", "n", "i", "l", "(", ")", ";", " ", "p", "r", "i", "n", "t", " ", "\"",
      "n", "o", "\"", ";", " ", "}", " ", "{", " ", "f", "(", ")", ";", " ", "p", "r", "i",
      "n", "t", " ", "\"", "n", "o", "\"", ";", " ", "}", " ", "p", "r", "i", "n", "t", " ",
      "\"", "n", "o", "\"", ";">>

\* var a = 1; print b; print 2;
ErrorLine ==
    <<"v", "a", "r", " ", "a", " ", "=", " ", "1", ";", " ", "p", "r", "i", "n", "t", " ",
      "b", ";", " ", "p", "r", "i", "n", "t", " ", "2", ";">>

\* @ print 3;
ScanErrorLine ==
    <<"@", " ", "p", "r", "i", "n", "t", " ", "3", ";">>

\* return;
ReturnLine ==
    <<"r", "e", "t", "u", "r", "n", ";">>

\* class A { init() { return 1; } }
InitValueProgram ==
    <<"c", "l", "a", "s", "s", " ", "A", " ", "{", " ", "i", "n", "i", "t", "(", ")", " ",
      "{", " ", "r", "e", "t", "u", "r", "n", " ", "1", ";", " ", "}", " ", "}">>

\* class A { init() { fun f() { return 1; } return 2; } }
NestedInitProgram ==
    <<"c", "l", "a", "s", "s", " ", "A", " ", "{", " ", "i", "n", "i", "t", "(", ")", " ",
      "{", " ", "f", "u", "n", " ", "f", "(", ")", " ", "{", " ", "r", "e", "t", "u", "r",
      "n", " ", "1", ";", " ", "}", " ", "r", "e", "t", "u", "r", "n", " ", "2", ";", " ",
      "}", " ", "}">>

\* fun f() { return 1; } return 2;
AfterFunctionProgram ==
    <<"f", "u", "n", " ", "f", "(", ")", " ", "{", " ", "r", "e", "t", "u", "r", "n", " ",
      "1", ";", " ", "}", " ", "r", "e", "t", "u", "r", "n", " ", "2", ";">>

\* { var x = x; }
LocalSelfInitProgram ==
    <<"{", " ", "v", "a", "r", " ", "x", " ", "=", " ", "x", ";", " ", "}">>

\* var x = x;
GlobalSelfInitProgram ==
    <<"v", "a", "r", " ", "x", " ", "=", " ", "x", ";">>

\* var a = 1; { var a = a; print a; } fun f() { var y = 1 + y; }
ShadowSelfInitProgram ==
    <<"v", "a", "r", " ", "a", " ", "=", " ", "1", ";", " ", "{", " ", "v", "a", "r", " ",
      "a", " ", "=", " ", "a", ";", " ", "p", "r", "i", "n", "t", " ", "a", ";", " ", "}",
      " ", "f", "u", "n", " ", "f", "(", ")", " ", "{", " ", "v", "a", "r", " ", "y", " ",
      "=", " ", "1", " ", "+", " ", "y", ";", " ", "}">>

\* class A {} class B < A {} { var a = 1; } fun f() { { return 1; } } { print f(); { nil(); } }
EnvironmentProgram ==
    <<"c", "l", "a", "s", "s", " ", "A", " ", "{", "}", " ", "c", "l", "a", "s", "s", " ",
      "B", " ", "<", " ", "A", " ", "{", "}", " ", "{", " ", "v", "a", "r", " ", "a", " ",
      "=", " ", "1", ";", " ", "}", " ", "f", "u", "n", " ", "f", "(", ")", " ", "{", " ",
      "{", " ", "r", "e", "t", "u", "r", "n", " ", "1", ";", " ", "}", " ", "}", " ", "{",
      " ", "p", "r", "i", "n", "t", " ", "f", "(", ")", ";", " ", "{", " ", "n", "i", "l",
      "(", ")", ";", " ", "}", " ", "}">>

\* class A { init() {} m() { return this; } } class B < A { m() { return super.m(); } } var a = A(); var b = B(); var f = b.m; var g = b.m; print f == g; print f() == g();
BindProgram ==
    <<"c", "l", "a", "s", "s", " ", "A", " ", "{", " ", "i", "n", "i", "t", "(", ")", " ",
      "{", "}", " ", "m", "(", ")", " ", "{", " ", "r", "e", "t", "u", "r", "n", " ", "t",
      "h", "i", "s", ";", " ", "}", " ", "}", " ", "c", "l", "a", "s", "s", " ", "B", " ",
      "<", " ", "A", " ", "{", " ", "m", "(", ")", " ", "{", " ", "r", "e", "t", "u", "r",
      "n", " ", "s", "u", "p", "e", "r", ".", "m", "(", ")", ";", " ", "}", " ", "}", " ",
      "v", "a", "r", " ", "a", " ", "=", " ", "A", "(", ")", ";", " ", "v", "a", "r", " ",
      "b", " ", "=", " ", "B", "(", ")", ";", " ", "v", "a", "r", " ", "f", " ", "=", " ",
      "b", ".", "m", ";", " ", "v", "a", "r", " ", "g", " ", "=", " ", "b", ".", "m", ";",
      " ", "p", "r", "i", "n", "t", " ", "f", " ", "=", "=", " ", "g", ";", " ", "p", "r",
      "i", "n", "t", " ", "f", "(", ")", " ", "=", "=", " ", "g", "(", ")", ";">>

\* fun make(x) { class C { get() { return x; } } return C; } var a = make(1); var b = make(2); print a().get(); print b().get(); print a == b;
ClassFactoryProgram ==
    <<"f", "u", "n", " ", "m", "a", "k", "e", "(", "x", ")", " ", "{", " ", "c", "l", "a",
      "s", "s", " ", "C", " ", "{", " ", "g", "e", "t", "(", ")", " ", "{", " ", "r", "e",
      "t", "u", "r", "n", " ", "x", ";", " ", "}", " ", "}", " ", "r", "e", "t", "u", "r",
      "n", " ", "C", ";", " ", "}", " ", "v", "a", "r", " ", "a", " ", "=", " ", "m", "a",
      "k", "e", "(", "1", ")", ";", " ", "v", "a", "r", " ", "b", " ", "=", " ", "m", "a",
      "k", "e", "(", "2", ")", ";", " ", "p", "r", "i", "n", "t", " ", "a", "(", ")", ".",
      "g", "e", "t", "(", ")", ";", " ", "p", "r", "i", "n", "t", " ", "b", "(", ")", ".",
      "g", "e", "t", "(", ")", ";", " ", "p", "r", "i", "n", "t", " ", "a", " ", "=", "=",
      " ", "b", ";">>

\* class A {} class B < A { init() { { return super.init; } } } { var a = a; }
ScopesProgram ==
    <<"c", "l", "a", "s", "s", " ", "A", " ", "{", "}", " ", "c", "l", "a", "s", "s", " ",
      "B", " ", "<", " ", "A", " ", "{", " ", "i", "n", "i", "t", "(", ")", " ", "{", " ",
      "{", " ", "r", "e", "t", "u", "r", "n", " ", "s", "u", "p", "e", "r", ".", "i", "n",
      "i", "t", ";", " ", "}", " ", "}", " ", "}", " ", "{", " ", "v", "a", "r", " ", "a",
      " ", "=", " ", "a", ";", " ", "}">>

\* the operators of each binary precedence level of the grammar (parser.py)
EqualityOps == {<<"=", "=">>, <<"!", "=">>}

ComparisonOps == {<<">">>, <<">", "=">>, <<"<">>, <<"<", "=">>}

TermOps == {<<"+">>, <<"-">>}

FactorOps == {<<"/">>, <<"*">>}

Levels == {EqualityOps, ComparisonOps, TermOps, FactorOps}

\* print 8 op1 4 op2 2;
Chain(op1, op2) ==
    <<"p", "r", "i", "n", "t", " ", "8", " ">> \o op1 \o <<" ", "4", " ">> \o op2
        \o <<" ", "2", ";">>

ChainPrograms == {Chain(o[1], o[2]) : o \in UNION {l \X l : l \in Levels}}

\* the left sides of the = of line 2: the text, the class of the expression
\* _logic_or returns for it (other: neither Variable nor Get), the name of a
\* Variable or Get and the class of the object of a Get.  In the last two the
\* left side of that = is the literal after the = of line 1.
AssignTargets ==
    {[src |-> <<"a">>, kind |-> "Variable", name |-> "a", obj |-> ""],
     [src |-> <<"a",".","b">>, kind |-> "Get", name |-> "b", obj |-> "Variable"],
     [src |-> <<"a",".","b",".","c">>, kind |-> "Get", name |-> "c", obj |-> "Get"],
     [src |-> <<"a","(",")",".","b">>, kind |-> "Get", name |-> "b", obj |-> "Call"],
     [src |-> <<"1">>, kind |-> "other", name |-> "", obj |-> ""],
     [src |-> <<"\"","s","\"">>, kind |-> "other", name |-> "", obj |-> ""],
     [src |-> <<"n","i","l">>, kind |-> "other", name |-> "", obj |-> ""],
     [src |-> <<"(","a",")">>, kind |-> "other", name |-> "", obj |-> ""],
     [src |-> <<"(","a",".","b",")">>, kind |-> "other", name |-> "", obj |-> ""],
     [src |-> <<"a","(",")">>, kind |-> "other", name |-> "", obj |-> ""],
     [src |-> <<"a",".","b","(",")">>, kind |-> "other", name |-> "", obj |-> ""],
     [src |-> <<"a"," ","+"," ","b">>, kind |-> "other", name |-> "", obj |-> ""],
     [src |-> <<"a"," ","=","="," ","b">>, kind |-> "other", name |-> "", obj |-> ""],
     [src |-> <<"a"," ","o","r"," ","b">>, kind |-> "other", name |-> "", obj |-> ""],
     [src |-> <<"-","a">>, kind |-> "other", name |-> "", obj |-> ""],
     [src |-> <<"!","a">>, kind |-> "other", name |-> "", obj |-> ""],
     [src |-> <<"t","h","i","s">>, kind |-> "other", name |-> "", obj |-> ""],
     [src |-> <<"s","u","p","e","r",".","m">>, kind |-> "other", name |-> "", obj |-> ""],
     [src |-> <<"a"," ","="," ","1">>, kind |-> "other", name |-> "", obj |-> ""],
     [src |-> <<"a",".","b"," ","="," ","1">>, kind |-> "other", name |-> "", obj |-> ""]}

\* <left side> newline = 1;
AssignTo(src) == src \o <<"\n", "=", " ", "1", ";">>

AssignPrograms == {AssignTo(t.src) : t \in AssignTargets}

\* the operands of the equality programs: an expression and the kind of its
\* value, with f, A, i, j as EqualPrefix declares them
EqualOperands ==
    {[src |-> <<"n","i","l">>, kind |-> "nil"],
     [src |-> <<"t","r","u","e">>, kind |-> "bool"],
     [src |-> <<"f","a","l","s","e">>, kind |-> "bool"],
     [src |-> <<"0">>, kind |-> "num"],
     [src |-> <<"1">>, kind |-> "num"],
     [src |-> <<"1",".","0">>, kind |-> "num"],
     [src |-> <<"\"","1","\"">>, kind |-> "str"],
     [src |-> <<"\"","t","r","u","e","\"">>, kind |-> "str"],
     [src |-> <<"f">>, kind |-> "fun"],
     [src |-> <<"c","l","o","c","k">>, kind |-> "native"],
     [src |-> <<"A">>, kind |-> "class"],
     [src |-> <<"i">>, kind |-> "inst"],
     [src |-> <<"j">>, kind |-> "inst"]}

\* fun f() {} class A {} var i = A(); var j = A();
EqualPrefix ==
    <<"f", "u", "n", " ", "f", "(", ")", " ", "{", "}", " ", "c", "l", "a", "s", "s", " ",
      "A", " ", "{", "}", " ", "v", "a", "r", " ", "i", " ", "=", " ", "A", "(", ")", ";",
      " ", "v", "a", "r", " ", "j", " ", "=", " ", "A", "(", ")", ";", " ">>

\* print x == y; print y == x; print x != y; print x == x;
EqualProgram(x, y) ==
    EqualPrefix \o <<"p", "r", "i", "n", "t", " ">> \o x \o <<" ", "=", "=", " ">> \o y
        \o <<";", "p", "r", "i", "n", "t", " ">> \o y \o <<" ", "=", "=", " ">> \o x
        \o <<";", "p", "r", "i", "n", "t", " ">> \o x \o <<" ", "!", "=", " ">> \o y
        \o <<";", "p", "r", "i", "n", "t", " ">> \o x \o <<" ", "=", "=", " ">> \o x
        \o <<";">>

EqualPrograms == {EqualProgram(o[1].src, o[2].src) : o \in EqualOperands \X EqualOperands}

Programs ==
    {AddProgram, ShadowProgram, LocalShadowProgram, CounterProgram, ShareProgram,
     InitReturnProgram, InitEndProgram, DoughnutProgram, SuperProgram, SuperDirectProgram,
     SuperChainProgram, SuperMissingProgram, ReturnProgram, ReturnNilProgram,
     ClassCallProgram, InheritInitProgram, AssignChainProgram, ClockProgram,
     ScanErrorProgram, TopReturnProgram, ParseErrorProgram, RuntimeErrorProgram,
     DivideByZeroProgram, EmptyProgram, NotCallableProgram, ArityProgram, ClassArityProgram,
     NativeArityProgram, InstanceCallProgram, FieldProgram, NestedErrorProgram,
     InitValueProgram, NestedInitProgram, AfterFunctionProgram, LocalSelfInitProgram,
     GlobalSelfInitProgram, ShadowSelfInitProgram, EnvironmentProgram, BindProgram,
     ClassFactoryProgram, ScopesProgram} \cup ChainPrograms \cup AssignPrograms

\* the lines typed at the prompt
Lines == {VarLine, PrintLine, IncrementLine, UndefinedLine, BadLine, ErrorLine,
          ScanErrorLine, ReturnLine}

\* len(sys.argv) is 1 .. MaxArgs
MaxArgs == 3

\* at most MaxLines lines are typed at the prompt before the end of input
MaxLines == 2

\* time.time() returns one of 0 .. MaxClock
MaxClock == 1

(***************************************************************************)
(* The driver (class Lox of src/pylox.py, called by src/main.py).          *)
(*   pc            where the driver is: "start" (cli not yet called),      *)
(*                 "prompt" (_run_prompt at input), "run" (_run called),   *)
(*                 "scanned", "parsed", "resolved" (inside _run),          *)
(*                 "interpret" (inside Interpreter.interpret),             *)
(*                 "ran" (_run returned), "exited" (the process ended)     *)
(*   mode          "file" (_run_file) or "prompt" (_run_prompt)            *)
(*   code          the source text given to _run                           *)
(*   tokens        the list returned by Scanner._scan_tokens               *)
(*   statements    the list returned by Parser.parse                       *)
(*   ip            the place in statements of the loop of interpret        *)
(*   I             Lox.interpreter with the heaps and standard output      *)
(*   stderr        standard error, one string per line                     *)
(*   has_error, has_runtime_error   Lox._has_error, Lox._has_runtime_error *)
(*   resolver_has_error             Resolver._has_error of this run's      *)
(*                                  resolver                               *)
(*   resolver      this run's resolver: its stack of scopes, its kinds and *)
(*                 its flag, and the numbers of calls of _begin_scope and  *)
(*                 _end_scope                                              *)
(*   exception     the Python exception that ended the process, "" if none *)
(*   exit_code     the exit status of the process, -1 while it runs        *)
(*   nlines        the number of lines read at the prompt                  *)
(* History: started is TRUE when Interpreter.interpret has been called for *)
(* the current source text.                                                *)
(***************************************************************************)
VARIABLES pc, mode, code, lexer, tokens, statements, ip, I, stderr, has_error,
          has_runtime_error, resolver_has_error, resolver, exception, exit_code, nlines,
          started

vars ==
    <<pc, mode, code, lexer, tokens, statements, ip, I, stderr, has_error,
      has_runtime_error, resolver_has_error, resolver, exception, exit_code, nlines,
      started>>

Init ==
    /\ pc = "start"
    /\ mode = ""
    /\ code = <<>>
    /\ lexer = Scanner_init(<<>>, FALSE, <<>>)
    /\ tokens = <<>>
    /\ statements = <<>>
    /\ ip = 0
    /\ I = Interpreter_init
    /\ stderr = <<>>
    /\ has_error = FALSE
    /\ has_runtime_error = FALSE
    /\ resolver_has_error = FALSE
    /\ resolver = Resolver_state(Resolver_init(<<>>, <<>>, <<>>))
    /\ exception = ""
    /\ exit_code = -1
    /\ nlines = 0
    /\ started = FALSE

\* Lox.cli with len(args) > 2: the usage line and sys.exit(64)
Lox_cli_usage ==
    /\ pc = "start"
    /\ \E nargs \in 3 .. MaxArgs :
          /\ I' = [I EXCEPT !.out = Append(@, "Usage: pyloc [script]")]
          /\ exit_code' = 64
          /\ pc' = "exited"
    /\ UNCHANGED <<lexer, mode, code, tokens, statements, ip, stderr, has_error,
                   has_runtime_error, resolver_has_error, resolver, exception, nlines, started>>

\* Lox.cli with len(args) = 2 -> _run_file: read the file and call _run
Lox_run_file ==
    /\ pc = "start"
    /\ \E program \in Programs :
          /\ code' = program
          /\ mode' = "file"
          /\ pc' = "run"
    /\ UNCHANGED <<lexer, tokens, statements, ip, I, stderr, has_error, has_runtime_error,
                   resolver_has_error, resolver, exception, exit_code, nlines, started>>

\* Lox.cli with len(args) < 2 -> _run_prompt
Lox_cli_prompt ==
    /\ pc = "start"
    /\ mode' = "prompt"
    /\ pc' = "prompt"
    /\ UNCHANGED <<lexer, code, tokens, statements, ip, I, stderr, has_error, has_runtime_error,
                   resolver_has_error, resolver, exception, exit_code, nlines, started>>

\* _run_prompt: input("> ") returns a line, which is given to _run
Lox_run_prompt_line ==
    /\ pc = "prompt"
    /\ nlines < MaxLines
    /\ \E line \in Lines : code' = line
    /\ nlines' = nlines + 1
    /\ pc' = "run"
    /\ UNCHANGED <<lexer, mode, tokens, statements, ip, I, stderr, has_error, has_runtime_error,
                   resolver_has_error, resolver, exception, exit_code, started>>

\* _run_prompt: input raises EOFError, the loop breaks and the process ends
Lox_run_prompt_eof ==
    /\ pc = "prompt"
    /\ exit_code' = 0
    /\ pc' = "exited"
    /\ UNCHANGED <<lexer, mode, code, tokens, statements, ip, I, stderr, has_error,
                   has_runtime_error, resolver_has_error, resolver, exception, nlines, started>>

\* _run: Scanner(code)._scan_tokens(); scan errors go to Lox.error
Lox_run_scan ==
    /\ pc = "run"
    /\ LET S == Scanner_scan_tokens(Scanner_init(code, has_error, stderr))
       IN  /\ lexer' = S
           /\ tokens' = S.tokens
           /\ has_error' = S.has_error
           /\ stderr' = S.stderr
    /\ statements' = <<>>
    /\ ip' = 0
    /\ started' = FALSE
    /\ resolver_has_error' = FALSE
    /\ resolver' = Resolver_state(Resolver_init(<<>>, <<>>, <<>>))
    /\ I' = [I EXCEPT !.ctl = "ok", !.emsg = "", !.etok = "", !.v = NoneV, !.vs = <<>>]
    /\ pc' = "scanned"
    /\ UNCHANGED <<mode, code, has_runtime_error, exception, exit_code, nlines>>

\* the process dies of an exception nobody catches: the traceback, exit status 1
Uncaught(name, message) ==
    /\ exception' = name
    /\ stderr' = Append(stderr, name \o ": " \o message)
    /\ exit_code' = 1
    /\ pc' = "exited"

\* ParseError.__str__; an EOF token cannot occur where the resolver reports
ParseError_str(token, msg) ==
    IF token.type = "EOF"
    THEN "[line " \o ToString(token.line) \o "] Error at end: " \o msg
    ELSE "[line " \o ToString(token.line) \o "] Error at '" \o token.lexeme \o "': " \o msg

\* _run: Parser(tokens).parse(); parse catches no ParseError and neither do _run,
\* _run_file, _run_prompt (which catches EOFError only) and cli
Lox_run_parse ==
    /\ pc = "scanned"
    /\ LET P == Parser_parse(Parser_init(tokens, I.nodes))
       IN  IF P.err
           THEN /\ Uncaught("ParseError", ParseError_str(P.etoken, P.emsg))
                /\ UNCHANGED <<statements, I>>
           ELSE /\ statements' = P.ns
                /\ I' = [I EXCEPT !.nodes = P.nodes]
                /\ pc' = "parsed"
                /\ UNCHANGED <<exception, stderr, exit_code>>
    /\ UNCHANGED <<lexer, mode, code, tokens, ip, has_error, has_runtime_error,
                   resolver_has_error, resolver, nlines, started>>

\* _run: Resolver(cls.interpreter)._resolve(statements); its errors are printed
\* and set Resolver._has_error
Lox_run_resolve ==
    /\ pc = "parsed"
    /\ LET Z == Resolver_resolve_list(Resolver_init(I.nodes, I.locals, I.out), statements, 1)
       IN  /\ I' = [I EXCEPT !.locals = Z.locals, !.out = Z.out]
           /\ resolver_has_error' = Z.has_error
           /\ resolver' = Resolver_state(Z)
    /\ pc' = "resolved"
    /\ UNCHANGED <<lexer, mode, code, tokens, statements, ip, stderr, has_error,
                   has_runtime_error, exception, exit_code, nlines, started>>

\* _run: cls.interpreter.interpret(statements) is called, whatever the flags say
Interpreter_interpret ==
    /\ pc = "resolved"
    /\ started' = TRUE
    /\ ip' = 1
    /\ pc' = "interpret"
    /\ UNCHANGED <<lexer, mode, code, tokens, statements, I, stderr, has_error,
                   has_runtime_error, resolver_has_error, resolver, exception, exit_code, nlines>>

\* an interpret that goes on with the next statement after an InterpreterError
Interpreter_interpret_stmt_continue ==
    /\ pc = "interpret"
    /\ ip <= Len(statements)
    /\ \E t \in 0 .. MaxClock :
          LET R == Interpreter_evaluate([I EXCEPT !.clock = t], statements[ip])
          IN  IF R.ctl \in {"ok", "InterpreterError"}
              THEN /\ I' = [R EXCEPT !.clock = 0, !.ctl = "ok"]
                   /\ ip' = ip + 1
                   /\ UNCHANGED <<pc, exception, stderr, exit_code>>
              ELSE /\ I' = [R EXCEPT !.clock = 0]
                   /\ Uncaught(IF R.ctl = "host" THEN R.emsg ELSE R.ctl, "")
                   /\ UNCHANGED ip
    /\ UNCHANGED <<lexer, mode, code, tokens, statements, has_error, has_runtime_error,
                   resolver_has_error, resolver, nlines, started>>

\* interpret: one turn of the loop.  An InterpreterError is caught and returned
\* (nothing is printed, Lox.runtime_error is not called); any other exception
\* leaves interpret and _run
Interpreter_interpret_stmt ==
    /\ pc = "interpret"
    /\ ip <= Len(statements)
    /\ \E t \in 0 .. MaxClock :
          LET R == Interpreter_evaluate([I EXCEPT !.clock = t], statements[ip])
          IN  /\ I' = [R EXCEPT !.clock = 0]
              /\ IF R.ctl = "ok"
                 THEN /\ ip' = ip + 1
                      /\ UNCHANGED <<pc, exception, stderr, exit_code>>
                 ELSE IF R.ctl = "InterpreterError"
                 THEN /\ pc' = "ran"
                      /\ UNCHANGED <<ip, exception, stderr, exit_code>>
                 ELSE /\ Uncaught(IF R.ctl = "host" THEN R.emsg ELSE R.ctl, "")
                      /\ UNCHANGED ip
    /\ UNCHANGED <<lexer, mode, code, tokens, statements, has_error, has_runtime_error,
                   resolver_has_error, resolver, nlines, started>>

\* interpret: the loop ends, interpret and _run return
Interpreter_interpret_end ==
    /\ pc = "interpret"
    /\ ip > Len(statements)
    /\ pc' = "ran"
    /\ UNCHANGED <<lexer, mode, code, tokens, statements, ip, I, stderr, has_error,
                   has_runtime_error, resolver_has_error, resolver, exception, exit_code, nlines,
                   started>>

\* _run_file after _run: the exit status from the two flags
Lox_run_file_exit ==
    /\ pc = "ran"
    /\ mode = "file"
    /\ exit_code' = IF has_error THEN 65 ELSE IF has_runtime_error THEN 70 ELSE 0
    /\ pc' = "exited"
    /\ UNCHANGED <<lexer, mode, code, tokens, statements, ip, I, stderr, has_error,
                   has_runtime_error, resolver_has_error, resolver, exception, nlines, started>>

\* _run_prompt after _run: the flag is reset and the next line is asked for
Lox_run_prompt_next ==
    /\ pc = "ran"
    /\ mode = "prompt"
    /\ has_error' = FALSE
    /\ pc' = "prompt"
    /\ UNCHANGED <<lexer, mode, code, tokens, statements, ip, I, stderr, has_runtime_error,
                   resolver_has_error, resolver, exception, exit_code, nlines, started>>

Next ==
    \/ Lox_cli_usage
    \/ Lox_run_file
    \/ Lox_cli_prompt
    \/ Lox_run_prompt_line
    \/ Lox_run_prompt_eof
    \/ Lox_run_scan
    \/ Lox_run_parse
    \/ Lox_run_resolve
    \/ Interpreter_interpret
    \/ Interpreter_interpret_stmt
    \/ Interpreter_interpret_end
    \/ Lox_run_file_exit
    \/ Lox_run_prompt_next

Spec == Init /\ [][Next]_vars

(***************************************************************************)
(* The scanner on its own: Scanner(source)._scan_tokens() for every source *)
(* over ScanAlphabet of at most MaxLen characters, one turn of the loop of *)
(* _scan_tokens per step.                                                  *)
(***************************************************************************)
\* a quote, a newline, a blank, a letter, a digit, a character of no lexeme, a
\* one-character lexeme, and the characters of the comment, the two-character
\* lexemes and the number
ScanAlphabet == {"\"", "\n", " ", "a", "1", "@", "(", "/", "=", "."}

\* the sources have at most MaxLen characters
MaxLen == 3

RECURSIVE Strings(_)
Strings(n) ==
    IF n = 0 THEN {<<>>}
    ELSE LET shorter == Strings(n - 1)
         IN  shorter \cup {Append(s, ch) : s \in shorter, ch \in ScanAlphabet}

ScanSources == Strings(MaxLen)

\* lexer = Scanner(code)
ScanInit ==
    /\ pc = "scan"
    /\ mode = ""
    /\ code \in ScanSources
    /\ lexer = Scanner_init(code, FALSE, <<>>)
    /\ tokens = <<>>
    /\ statements = <<>>
    /\ ip = 0
    /\ I = Interpreter_init
    /\ stderr = <<>>
    /\ has_error = FALSE
    /\ has_runtime_error = FALSE
    /\ resolver_has_error = FALSE
    /\ resolver = Resolver_state(Resolver_init(<<>>, <<>>, <<>>))
    /\ exception = ""
    /\ exit_code = -1
    /\ nlines = 0
    /\ started = FALSE

\* _scan_tokens: one turn of the while loop
Scanner_scan_tokens_loop ==
    /\ pc = "scan"
    /\ ~Scanner_is_at_end(lexer)
    /\ lexer' = Scanner_scan_token([lexer EXCEPT !.start = lexer.current])
    /\ has_error' = lexer'.has_error
    /\ stderr' = lexer'.stderr
    /\ UNCHANGED <<pc, mode, code, tokens, statements, ip, I, has_runtime_error,
                   resolver_has_error, resolver, exception, exit_code, nlines, started>>

\* _scan_tokens: the loop ends, the EOF token is appended, the tokens are returned
Scanner_scan_tokens_return ==
    /\ pc = "scan"
    /\ Scanner_is_at_end(lexer)
    /\ lexer' = [lexer EXCEPT !.tokens = Append(@, Token("EOF", "", EmptyV, lexer.line))]
    /\ tokens' = lexer'.tokens
    /\ pc' = "scanned"
    /\ UNCHANGED <<mode, code, statements, ip, I, stderr, has_error, has_runtime_error,
                   resolver_has_error, resolver, exception, exit_code, nlines, started>>

ScanNext ==
    \/ Scanner_scan_tokens_loop
    \/ Scanner_scan_tokens_return

\* the loop of _scan_tokens is sequential code: it keeps running until it returns
ScanSpec == ScanInit /\ [][ScanNext]_vars /\ WF_vars(ScanNext)

(***************************************************************************)
(* Equality on its own: Lox._run_file on the program EqualProgram(x, y)    *)
(* for every two operands of EqualOperands.                                *)
(***************************************************************************)
EqualInit ==
    /\ pc = "run"
    /\ mode = "file"
    /\ code \in EqualPrograms
    /\ lexer = Scanner_init(<<>>, FALSE, <<>>)
    /\ tokens = <<>>
    /\ statements = <<>>
    /\ ip = 0
    /\ I = Interpreter_init
    /\ stderr = <<>>
    /\ has_error = FALSE
    /\ has_runtime_error = FALSE
    /\ resolver_has_error = FALSE
    /\ resolver = Resolver_state(Resolver_init(<<>>, <<>>, <<>>))
    /\ exception = ""
    /\ exit_code = -1
    /\ nlines = 0
    /\ started = FALSE

EqualNext ==
    \/ Lox_run_scan
    \/ Lox_run_parse
    \/ Lox_run_resolve
    \/ Interpreter_interpret
    \/ Interpreter_interpret_stmt
    \/ Interpreter_interpret_end
    \/ Lox_run_file_exit

EqualSpec == EqualInit /\ [][EqualNext]_vars

(***************************************************************************)
(* The environments on their own: one call of Environment._assign or of    *)
(* Environment.get, on any environment of any heap of at most MaxEnvs      *)
(* environments in which every environment but the global one is enclosed  *)
(* by an earlier one and binds some of EnvNames.                           *)
(***************************************************************************)
MaxEnvs == 3

EnvNames == {"a", "b"}

\* the dict that binds the names of the set names to the number k
EnvValues(values, names, k) ==
    LET d == IF "a" \in names THEN DictSet(values, "a", NumV(k, 1)) ELSE values
    IN  IF "b" \in names THEN DictSet(d, "b", NumV(k, 1)) ELSE d

RECURSIVE EnvHeaps(_)
EnvHeaps(n) ==
    IF n = 1
    THEN {[Interpreter_init.envs EXCEPT ![Globals].values = EnvValues(@, names, 1)] :
             names \in SUBSET EnvNames}
    ELSE {Append(envs, [Environment(enclosing) EXCEPT !.values = EnvValues(@, names, n)]) :
             <<envs, enclosing, names>> \in EnvHeaps(n - 1) \X (1 .. n - 1) \X SUBSET EnvNames}

EnvInit ==
    /\ pc = "env"
    /\ mode = ""
    /\ code = <<>>
    /\ lexer = Scanner_init(<<>>, FALSE, <<>>)
    /\ tokens = <<>>
    /\ statements = <<>>
    /\ ip = 0
    /\ \E n \in 1 .. MaxEnvs : \E envs \in EnvHeaps(n) : I = [Interpreter_init EXCEPT !.envs = envs]
    /\ stderr = <<>>
    /\ has_error = FALSE
    /\ has_runtime_error = FALSE
    /\ resolver_has_error = FALSE
    /\ resolver = Resolver_state(Resolver_init(<<>>, <<>>, <<>>))
    /\ exception = ""
    /\ exit_code = -1
    /\ nlines = 0
    /\ started = FALSE

\* e._assign(name, "new") for an environment e and a name; name is a token
\* whose lexeme is a, b or c
Environment_assign_call ==
    /\ pc = "env"
    /\ \E e \in DOMAIN I.envs, name \in EnvNames \cup {"c"} :
          LET value == StrV("new")
              J == Log(I, "_assign", 0, e, value, <<>>, name)
          IN  I' = IF Environment_assign_where(I.envs, e, name) = 0
                   THEN Raise(J, name, "Undefined variable '" \o name \o "'.")
                   ELSE Ret([J EXCEPT !.envs = Environment_assign(@, e, name, value)], NoneV)
    /\ pc' = "returned"
    /\ UNCHANGED <<mode, code, lexer, tokens, statements, ip, stderr, has_error,
                   has_runtime_error, resolver_has_error, resolver, exception, exit_code, nlines,
                   started>>

\* e.get(name)
Environment_get_call ==
    /\ pc = "env"
    /\ \E e \in DOMAIN I.envs, name \in EnvNames \cup {"c"} :
          LET J == Log(I, "get", 0, e, NoneV, <<>>, name)
          IN  I' = IF Environment_get_where(I.envs, e, name) = 0
                   THEN Raise(J, name, "Undefined variable '" \o name \o "'.")
                   ELSE Ret(J, Environment_get(I.envs, e, name))
    /\ pc' = "returned"
    /\ UNCHANGED <<mode, code, lexer, tokens, statements, ip, stderr, has_error,
                   has_runtime_error, resolver_has_error, resolver, exception, exit_code, nlines,
                   started>>

EnvNext == Environment_assign_call \/ Environment_get_call

EnvSpec == EnvInit /\ [][EnvNext]_vars

(***************************************************************************)
(* Resolution of one reference on its own: Resolver._resolve_local for a   *)
(* new Variable expression and any stack of at most MaxScopes scopes, each *)
(* holding some of EnvNames, and then Interpreter.lookup_variable for that *)
(* expression in any environment of the heap.                              *)
(***************************************************************************)
MaxScopes == 3

\* the scope in which the names of the set names are defined
Scope(names) ==
    LET d == IF "a" \in names THEN DictSet(<<>>, "a", TRUE) ELSE <<>>
    IN  IF "b" \in names THEN DictSet(d, "b", TRUE) ELSE d

RECURSIVE ScopeStacks(_)
ScopeStacks(n) ==
    IF n = 0 THEN {<<>>}
    ELSE ScopeStacks(n - 1) \cup
         {Append(scopes, Scope(names)) :
             <<scopes, names>> \in {t \in ScopeStacks(n - 1) : Len(t) = n - 1} \X SUBSET EnvNames}

ResolveInit ==
    /\ pc = "resolver"
    /\ mode = ""
    /\ code = <<>>
    /\ lexer = Scanner_init(<<>>, FALSE, <<>>)
    /\ tokens = <<>>
    /\ statements = <<>>
    /\ ip = 0
    /\ \E envs \in EnvHeaps(1) \cup EnvHeaps(2) : I = [Interpreter_init EXCEPT !.envs = envs]
    /\ stderr = <<>>
    /\ has_error = FALSE
    /\ has_runtime_error = FALSE
    /\ resolver_has_error = FALSE
    /\ resolver = Resolver_state(Resolver_init(<<>>, <<>>, <<>>))
    /\ exception = ""
    /\ exit_code = -1
    /\ nlines = 0
    /\ started = FALSE

\* _resolve_local(expr, name) of a resolver whose stack is scopes, for a new
\* Variable expression expr with the name token name
Resolver_resolve_local_call ==
    /\ pc = "resolver"
    /\ \E scopes \in ScopeStacks(MaxScopes), name \in EnvNames \cup {"c"} :
          LET expr == Len(I.nodes) + 1
              J == Log([I EXCEPT !.nodes = Append(@, Variable(Token("IDENTIFIER", name,
                                                                    EmptyV, 1)))],
                       "_resolve_local", expr, I.environment, NoneV, scopes, name)
              Z == Resolver_resolve_local(
                       [Resolver_init(J.nodes, J.locals, J.out) EXCEPT !.scopes = scopes],
                       expr, name)
          IN  I' = [J EXCEPT !.locals = Z.locals]
    /\ pc' = "resolved_local"
    /\ UNCHANGED <<mode, code, lexer, tokens, statements, ip, stderr, has_error,
                   has_runtime_error, resolver_has_error, resolver, exception, exit_code, nlines,
                   started>>

\* lookup_variable(expr.name, expr) while the current environment is e; the
\* chain of e is at least as long as the distance recorded for expr
Interpreter_lookup_variable_call ==
    /\ pc = "resolved_local"
    /\ \E e \in DOMAIN I.envs :
          LET expr == I.trace[1].node
          IN  /\ DictHas(I.locals, expr)
                    => Environment_ancestor(I.envs, e, DictGet(I.locals, expr)) # 0
              /\ I' = Interpreter_lookup_variable([I EXCEPT !.environment = e],
                                                  I.nodes[expr].name, expr)
    /\ pc' = "returned"
    /\ UNCHANGED <<mode, code, lexer, tokens, statements, ip, stderr, has_error,
                   has_runtime_error, resolver_has_error, resolver, exception, exit_code, nlines,
                   started>>

ResolveNext == Resolver_resolve_local_call \/ Interpreter_lookup_variable_call

ResolveSpec == ResolveInit /\ [][ResolveNext]_vars

(***************************************************************************)
(* Properties.                                                             *)
(***************************************************************************)
\* the process has ended after running the file program
Exited(program) == pc = "exited" /\ mode = "file" /\ code = program

\* a static error was reported for the current source text
StaticError == has_error \/ resolver_has_error \/ exception = "ParseError"

\* the events of the evaluation so far
Events == DOMAIN I.trace

\* C1: if scanning, parsing or resolving reports an error for a source text
\* (a scan error, a ParseError, a resolver error), Interpreter.interpret is not
\* started for that source text, so none of its statements is evaluated.
C1_NoEvaluationAfterStaticError == StaticError => ~started

\* C2: running a file ends with exit code 65 when scanning, parsing or
\* resolving reported an error, with 70 when evaluation raised an
\* InterpreterError, with 0 otherwise; more than one script argument ends
\* with 64.
C2_ExitCodes ==
    /\ (pc = "exited" /\ mode = "file") =>
           exit_code = IF StaticError THEN 65
                       ELSE IF I.ctl = "InterpreterError" THEN 70
                       ELSE 0
    /\ (pc = "exited" /\ mode = "") => exit_code = 64

\* C3: every read of a Variable or This reference for which the resolver
\* recorded a distance d consults exactly one environment, the one d parent
\* links above the environment current at the reference; a variable declared in
\* an inner scope after a closure was created does not change what the
\* closure reads: the shadowing program prints global twice, and its
\* variant with the two variables in nested blocks prints outer twice.
C3_ReadsAtResolvedDistance ==
    /\ \A i \in Events :
          LET e == I.trace[i]
          IN  (/\ e.ev = "read"
               /\ I.nodes[e.node].kind \in {"Variable", "This"}
               /\ DictHas(I.locals, e.node))
              => e.list = <<Environment_ancestor(I.envs, e.env, DictGet(I.locals, e.node))>>
    /\ Exited(ShadowProgram) => I.out = <<"global", "global">>
    /\ Exited(LocalShadowProgram) => I.out = <<"outer", "outer">>

\* the closure of LocalShadowProgram has read a at distance 2 after the inner a
\* was declared, and the program has printed outer twice
C3_Witness ==
    /\ Exited(LocalShadowProgram)
    /\ I.out = <<"outer", "outer">>
    /\ \E i, j \in Events :
          /\ i < j
          /\ I.trace[i].ev = "define" /\ I.trace[i].how = "a"
          /\ I.trace[i].v = StrV("inner")
          /\ I.trace[j].ev = "read" /\ I.trace[j].how = "a"
          /\ DictHas(I.locals, I.trace[j].node)
          /\ DictGet(I.locals, I.trace[j].node) = 2
          /\ I.trace[j].v = StrV("outer")

\* the environment an event defines or assigns its name in
Target(e) == IF e.ev \in {"define", "write"} THEN e.list[1] ELSE e.env

\* the events that give a value to the name in the environment env
Stores(name, env, before) ==
    {k \in Events : /\ k < before
                    /\ I.trace[k].ev \in {"define", "write", "function", "class"}
                    /\ I.trace[k].how = name
                    /\ Target(I.trace[k]) = env}

Last(S) == CHOOSE k \in S : \A m \in S : m <= k

\* C4: a function value shares the environment current at its declaration.
\* The closure of a function object is that environment itself and every call
\* runs in a new environment whose parent is the closure; every read of a
\* variable yields the value of the latest declaration of or assignment to
\* that variable in that environment, whoever made it (the declaring scope,
\* this closure or another one); two calls of makeCounter give independent
\* counters (c(); c(); d(); c(); prints 1 2 1 3) and assignments by a closure
\* and by the declaring scope are seen by both (ShareProgram prints 1 2 2 3).
C4_ClosuresShareEnvironment ==
    /\ \A i \in Events :
          LET e == I.trace[i]
          IN  /\ e.ev = "function" => I.nodes[e.node].closure = e.env
              /\ e.ev = "call" => I.envs[e.env].enclosing = I.nodes[e.node].closure
              /\ (/\ e.ev = "read"
                  /\ I.nodes[e.node].kind = "Variable"
                  /\ Stores(e.how, e.list[Len(e.list)], i) # {})
                 => e.v = I.trace[Last(Stores(e.how, e.list[Len(e.list)], i))].v
    /\ Exited(CounterProgram) => I.out = <<"1", "2", "1", "3">>
    /\ Exited(ShareProgram) => I.out = <<"1", "2", "2", "3">>

\* in ShareProgram a closure has assigned x and the declaring scope has read
\* that value from the same environment, and the other way round
C4_Witness ==
    /\ Exited(ShareProgram)
    /\ \E i, j \in Events :
          /\ i < j
          /\ I.trace[i].ev = "write" /\ I.trace[i].frame > 0
          /\ I.trace[j].ev = "read" /\ I.trace[j].frame = 0
          /\ I.trace[j].how = "x" /\ I.trace[i].how = "x"
          /\ I.trace[j].list = I.trace[i].list
          /\ I.trace[j].v = NumV(2, 1)
    /\ \E i, j \in Events :
          /\ i < j
          /\ I.trace[i].ev = "write" /\ I.trace[i].frame = 0
          /\ I.trace[j].ev = "read" /\ I.trace[j].frame > 0
          /\ I.trace[j].how = "x" /\ I.trace[i].how = "x"
          /\ I.trace[j].list = I.trace[i].list
          /\ I.trace[j].v = NumV(3, 1)

\* C5: every invocation of a function object that is an initializer returns
\* the instance bound as this in its closure, whether the body ran to its end
\* or executed a return, and whether it was invoked by a call of the class or
\* as instance.init(...).
C5_InitializerReturnsThis ==
    \A i \in Events :
       LET e == I.trace[i]
       IN  (e.ev = "exit" /\ I.nodes[e.node].is_initializer)
           => e.v = Environment_get_at(I.envs, I.nodes[e.node].closure, 0, "this")

\* the method called name of the nearest class that declares it in the
\* superclass chain of klass, 0 when none does
RECURSIVE ChainLookup(_, _, _)
ChainLookup(nodes, klass, name) ==
    IF klass = 0 THEN 0
    ELSE IF DictHas(nodes[klass].methods, name) THEN DictGet(nodes[klass].methods, name)
    ELSE ChainLookup(nodes, nodes[klass].superclass_obj, name)

Classes == {c \in DOMAIN I.nodes : I.nodes[c].kind = "Class"}

MethodNames == {I.nodes[f].name : f \in {g \in DOMAIN I.nodes : I.nodes[g].kind = "Function"}}

\* C6: method lookup on a class for a name returns the method of that name of
\* the nearest class of its superclass chain that declares it, and nothing
\* only when no class of the chain declares it; BostonCream().cook is
\* Doughnut's cook bound to the new instance, so the program prints its line.
C6_MethodLookupWalksSuperclassChain ==
    /\ \A c \in Classes : \A name \in MethodNames :
          Class_find_method(I.nodes, c, name) = ChainLookup(I.nodes, c, name)
    /\ Exited(DoughnutProgram) => I.out = <<"Fry until golden brown.">>

\* C7: super.m in a method of class B with superclass A reads super at the
\* resolved distance d and this at d - 1, looks m up starting at A and yields
\* that method bound to this; when the lookup finds no m the result is the
\* runtime error Undefined property 'm'.
C7_SuperLooksUpFromLexicalSuperclass ==
    /\ \A i \in Events :
          LET e == I.trace[i]
              d == DictGet(I.locals, e.node)
              method == ChainLookup(I.nodes, e.v.n, I.nodes[e.node].method)
          IN  (e.ev = "read" /\ I.nodes[e.node].kind = "Super")
              => /\ e.list = <<Environment_ancestor(I.envs, e.env, d),
                               Environment_ancestor(I.envs, e.env, d - 1)>>
                 /\ method # 0 =>
                       /\ i < Len(I.trace)
                       /\ I.trace[i + 1].ev = "bind"
                       /\ I.trace[i + 1].list[1] = method
                       /\ I.trace[i + 1].v = Environment_get_at(I.envs, e.env, d - 1, "this")
    /\ Exited(SuperDirectProgram) => I.out = <<"A.m", "B instance">>
    /\ Exited(SuperProgram) => I.out = <<"A method">>
    /\ Exited(SuperChainProgram) => I.out = <<"Z.m">>
    /\ Exited(SuperMissingProgram) =>
           I.ctl = "InterpreterError" /\ I.emsg = "Undefined property 'm'."

\* the TokenType of an operator of a chain program
OpType(op) ==
    CASE op = <<"=", "=">> -> "EQUAL_EQUAL"
      [] op = <<"!", "=">> -> "BANG_EQUAL"
      [] op = <<">">> -> "GREATER"
      [] op = <<">", "=">> -> "GREATER_EQUAL"
      [] op = <<"<">> -> "LESS"
      [] op = <<"<", "=">> -> "LESS_EQUAL"
      [] op = <<"+">> -> "PLUS"
      [] op = <<"-">> -> "MINUS"
      [] op = <<"/">> -> "SLASH"
      [] op = <<"*">> -> "STAR"

\* C8: at every binary precedence level a chain a op1 b op2 c of operators of
\* that level parses to Binary(Binary(a, op1, b), op2, c), and a = b = c parses
\* to Assign(a, Assign(b, c)).
C8_BinaryChainsGroupLeft ==
    /\ \A level \in Levels : \A op1, op2 \in level :
          (code = Chain(op1, op2) /\ statements # <<>>)
          => LET top == I.nodes[I.nodes[statements[1]].a]
                 left == I.nodes[top.a]
             IN  /\ top.kind = "Binary" /\ top.op = OpType(op2)
                 /\ left.kind = "Binary" /\ left.op = OpType(op1)
                 /\ I.nodes[left.a].val = NumV(8, 1)
                 /\ I.nodes[left.b].val = NumV(4, 1)
                 /\ I.nodes[top.b].val = NumV(2, 1)
    /\ (code = AssignChainProgram /\ statements # <<>>)
       => LET outer == I.nodes[I.nodes[statements[4]].a]
              inner == I.nodes[outer.a]
          IN  /\ outer.kind = "Assign" /\ outer.name = "a"
              /\ inner.kind = "Assign" /\ inner.name = "b"
              /\ I.nodes[inner.a].kind = "Variable" /\ I.nodes[inner.a].name = "c"

\* C9: a return executed inside a function body, however deep in blocks, if
\* branches and while loops, is followed at once by the end of the innermost
\* active call, whose value is the returned value (nil without a value): no
\* statement of that body runs in between and no loop goes on; a call ends by
\* a return only when a return of that call was executed; the callers go on
\* (ReturnProgram prints 7 and after, ReturnNilProgram prints on and nil).
C9_ReturnUnwindsToCall ==
    /\ \A i \in Events :
          LET e == I.trace[i]
          IN  /\ (e.ev = "return" /\ e.frame > 0)
                 => /\ i < Len(I.trace)
                    /\ I.trace[i + 1].ev = "exit"
                    /\ I.trace[i + 1].how = "ReturnException"
                    /\ I.trace[i + 1].frame = e.frame
                    /\ I.trace[i + 1].v = e.v
              /\ (e.ev = "exit" /\ e.how = "ReturnException")
                 => /\ i > 1
                    /\ I.trace[i - 1].ev = "return"
                    /\ I.trace[i - 1].frame = e.frame
    /\ Exited(ReturnProgram) => I.out = <<"7", "after">>
    /\ Exited(ReturnNilProgram) => I.out = <<"on", "nil">>

\* ReturnProgram has executed return 7 inside a block in an if in a while loop
\* of f, the call has ended with 7 and the caller has printed after
C9_Witness ==
    /\ Exited(ReturnProgram)
    /\ I.out = <<"7", "after">>
    /\ \E i \in Events :
          /\ I.trace[i].ev = "return" /\ I.trace[i].frame > 0
          /\ I.trace[i].v = NumV(7, 1)
          /\ \E w, b \in 1 .. i :
                /\ w < b
                /\ I.trace[w].ev = "stmt" /\ I.trace[w].how = "WhileStmt"
                /\ I.trace[b].ev = "stmt" /\ I.trace[b].how = "Block"
                /\ I.trace[w].frame = I.trace[i].frame
                /\ I.trace[b].frame = I.trace[i].frame

\* C10: the arity of a class is the arity of the init found by method lookup
\* on it (0 when there is none); a call of the class creates a new Instance of
\* it with no fields, runs init bound to it, and its value is that instance;
\* two calls give two distinct instances.
C10_ClassCall ==
    /\ \A c \in Classes :
          I.nodes[c].arity = IF ChainLookup(I.nodes, c, "init") = 0 THEN 0
                             ELSE I.nodes[ChainLookup(I.nodes, c, "init")].arity
    /\ \A i \in Events :
          LET e == I.trace[i]
          IN  /\ e.ev = "new" => /\ e.v.n = Cardinality({k \in 1 .. i : I.trace[k].ev = "new"})
                                 /\ I.insts[e.v.n].kclass = e.node
              /\ e.ev = "made" => \E k \in 1 .. i : /\ I.trace[k].ev = "new"
                                                    /\ I.trace[k].v = e.v
                                                    /\ I.trace[k].node = e.node
    /\ Exited(ClassCallProgram) =>
           /\ I.out = <<"false", "1", "N instance">>
           /\ I.emsg = "Expected 1 arguments but got 0."
    /\ Exited(InheritInitProgram) => I.out = <<"1">>

\* the number of EOF tokens of a token sequence
EOFCount(toks) == Cardinality({i \in DOMAIN toks : toks[i].type = "EOF"})

\* C16: for every source, also one with unexpected characters or an
\* unterminated string, the scanner terminates: every turn of its loop consumes
\* at least one character, the loop returns, and the tokens returned hold
\* exactly one EOF token, the last one; the turns taken one by one give what
\* _scan_tokens gives as a whole.
C16_ScannerTerminatesWithOneEOF ==
    /\ <>(pc = "scanned")
    /\ [][pc = "scan" /\ pc' = "scan" => lexer'.current > lexer.current]_vars
    /\ [](pc = "scanned" =>
            /\ Len(tokens) >= 1
            /\ tokens[Len(tokens)].type = "EOF"
            /\ EOFCount(tokens) = 1
            /\ lexer = Scanner_scan_tokens(Scanner_init(code, FALSE, <<>>)))

\* the scan of a source with an unexpected character and an unterminated
\* string has returned
C16_Witness ==
    /\ pc = "scanned"
    /\ code = <<"@", "\"", "\n">>
    /\ stderr = <<"[line 1] Error : Unexpected character.",
                  "[line 2] Error : Unterminated string.">>
    /\ has_error
    /\ Len(tokens) = 1

\* the 1-based line of the character at the 0-based offset of a source
LineOf(source, offset) ==
    1 + Cardinality({i \in 1 .. offset : i <= Len(source) /\ source[i] = "\n"})

\* C17: every token the scanner emits carries the line on which its lexeme
\* starts, also a string literal that spans several lines.  A turn of the loop
\* starts at the first character of a lexeme and emits at most one token.
C17_TokenLineIsLexemeStart ==
    [][pc = "scan" /\ Len(lexer'.tokens) > Len(lexer.tokens) =>
           lexer'.tokens[Len(lexer'.tokens)].line = LineOf(code, lexer.current)]_vars

\* the scanner is at an opening quote that no later quote closes
AtUnterminatedString ==
    /\ pc = "scan"
    /\ ~Scanner_is_at_end(lexer)
    /\ code[lexer.current + 1] = "\""
    /\ \A j \in lexer.current + 2 .. Len(code) : code[j] # "\""

\* C18: a string literal not closed before the end of input is reported as
\* "Unterminated string." with the line of its opening quote, also when its
\* text holds newlines; the error flag is set, no STRING token is emitted and
\* the tokens produced before it are kept and returned.
C18_UnterminatedStringOnOpeningLine ==
    [][AtUnterminatedString =>
           /\ stderr' = Append(stderr, "[line " \o ToString(LineOf(code, lexer.current))
                                       \o "] Error : Unterminated string.")
           /\ has_error'
           /\ lexer'.tokens = lexer.tokens
           /\ Scanner_is_at_end(lexer')]_vars

\* callable(callee): Function and Class define __call__, the built-in is a
\* Python function; the other values are not callable
Callable(value) == value.t \in {"fun", "class", "native"}

\* callee.arity
ArityOf(value) == IF value.t = "native" THEN 0 ELSE I.nodes[value.n].arity

\* the error a call of the callee with the arguments raises ("" when none)
CallError(callee, arguments) ==
    IF ~Callable(callee) THEN "Can only call functions and classes"
    ELSE IF ArityOf(callee) # Len(arguments)
    THEN "Expected " \o ToString(ArityOf(callee)) \o " arguments but got "
         \o ToString(Len(arguments)) \o "."
    ELSE ""

\* the event starts a top-level statement (of a later line of the prompt)
TopLevel(e) == e.ev = "stmt" /\ e.frame = 0 /\ e.env = Globals

\* C11: a call whose callee is no function, class or native raises "Can only
\* call functions and classes", a call of a callable with a number of arguments
\* other than its arity raises "Expected N arguments but got M."; the callee
\* and all the arguments are evaluated, left to right, before the check, and
\* after a failed check nothing of a callee runs: the error is the next event,
\* and what follows it is the start of a later top-level statement.
C11_CallChecks ==
    /\ \A i \in Events :
          LET e == I.trace[i]
          IN  e.ev = "check" =>
                /\ Len(e.list) = Len(I.nodes[e.node].list)
                /\ IF CallError(e.v, e.list) # ""
                   THEN /\ i < Len(I.trace)
                        /\ I.trace[i + 1].ev = "raise"
                        /\ I.trace[i + 1].how = CallError(e.v, e.list)
                        /\ i + 1 < Len(I.trace) => TopLevel(I.trace[i + 2])
                   ELSE /\ e.v.t = "fun" =>
                              /\ i < Len(I.trace)
                              /\ I.trace[i + 1].ev = "call"
                              /\ I.trace[i + 1].node = e.v.n
                        /\ e.v.t = "class" =>
                              /\ i < Len(I.trace)
                              /\ I.trace[i + 1].ev = "new"
                              /\ I.trace[i + 1].node = e.v.n
    /\ Exited(NotCallableProgram) =>
          /\ I.out = <<"callee", "1", "2">>
          /\ I.ctl = "InterpreterError"
          /\ I.emsg = "Can only call functions and classes"
    /\ Exited(ArityProgram) =>
          /\ I.out = <<"1", "2">>
          /\ I.ctl = "InterpreterError"
          /\ I.emsg = "Expected 1 arguments but got 2."
    /\ Exited(ClassArityProgram) =>
          I.out = <<>> /\ I.emsg = "Expected 1 arguments but got 0."
    /\ Exited(NativeArityProgram) => I.emsg = "Expected 0 arguments but got 1."
    /\ Exited(InstanceCallProgram) => I.emsg = "Can only call functions and classes"

\* a call with two evaluated arguments has failed its arity check after both
\* arguments printed
C11_Witness ==
    /\ Exited(ArityProgram)
    /\ \E i \in Events :
          /\ I.trace[i].ev = "check"
          /\ Len(I.trace[i].list) = 2
          /\ I.trace[i].v.t = "fun"
          /\ i + 1 = Len(I.trace)
          /\ I.trace[i + 1].ev = "raise"

\* the Set events on the field name of the instance inst before the event
\* number before
Sets(inst, name, before) ==
    {k \in Events : /\ k < before
                    /\ I.trace[k].ev = "set"
                    /\ I.trace[k].node = inst
                    /\ I.trace[k].how = name}

\* the names of the fields set or held
FieldNames ==
    {I.trace[k].how : k \in {j \in Events : I.trace[j].ev = "set"}}
        \cup UNION {{f.k : f \in {I.insts[x].fields[j] : j \in DOMAIN I.insts[x].fields}} :
                      x \in DOMAIN I.insts}

\* C12: a Set on an instance creates or overwrites the named field on that
\* instance only: the fields of every instance are what the Sets on that very
\* instance made them, and no statement changes the methods of a class.  A Get
\* of a name that was set on the instance yields the value last set, also when
\* the class has a method of that name; a Get of a name that is no field of
\* the instance and no method of a class of its chain raises "Undefined
\* property".
C12_FieldsPerInstance ==
    /\ [](\A x \in DOMAIN I.insts : \A name \in FieldNames :
            LET S == Sets(x, name, Len(I.trace) + 1)
                fields == I.insts[x].fields
            IN  /\ DictHas(fields, name) <=> S # {}
                /\ S # {} => DictGet(fields, name) = I.trace[Last(S)].v)
    /\ [](\A i \in Events :
            LET e == I.trace[i]
                S == Sets(e.v.n, e.how, i)
            IN  e.ev = "get" =>
                  /\ i < Len(I.trace)
                  /\ S # {} => /\ I.trace[i + 1].ev = "field"
                               /\ I.trace[i + 1].node = e.v.n
                               /\ I.trace[i + 1].v = I.trace[Last(S)].v
                  /\ (S = {} /\ ChainLookup(I.nodes, I.insts[e.v.n].kclass, e.how) = 0) =>
                        /\ I.trace[i + 1].ev = "raise"
                        /\ I.trace[i + 1].how = "Undefined property '" \o e.how \o "'.")
    /\ [](Exited(FieldProgram) =>
            /\ I.out = <<"field", "method", "2">>
            /\ I.emsg = "Undefined property 'x'.")
    /\ [][\A c \in DOMAIN I.nodes :
              I.nodes[c].kind = "Class" =>
                 /\ c \in DOMAIN I'.nodes
                 /\ I'.nodes[c].methods = I.nodes[c].methods
                 /\ I'.nodes[c].kind = "Class"]_vars

\* a field that shadows a method has been read, and a field has been
\* overwritten, on one of two instances of a class
C12_Witness ==
    /\ Exited(FieldProgram)
    /\ Len(I.insts) = 2
    /\ DictGet(I.insts[1].fields, "m") = StrV("field")
    /\ DictGet(I.insts[1].fields, "x") = NumV(2, 1)
    /\ I.insts[2].fields = <<>>
    /\ \E i \in Events : /\ I.trace[i].ev = "field"
                         /\ I.trace[i].how = "m"
                         /\ Class_find_method(I.nodes, I.insts[1].kclass, "m") # 0

IsPrefix(s, t) == Len(s) <= Len(t) /\ SubSeq(t, 1, Len(s)) = s

\* the statement has been started at some time
Started(stmt) == \E i \in Events : I.trace[i].ev = "stmt" /\ I.trace[i].node = stmt

\* C13: when a runtime error is raised in the k-th top-level statement,
\* interpret returns: no later statement of the program is started, and what
\* ran before stays: the output and the history only grow and every global
\* variable keeps the value last stored in it.  At the prompt only the current
\* line is aborted: the interpreter is back in the global environment and the
\* next line is evaluated (after `var a = 1; print b; print 2;` the line
\* `print a;` prints 1).
C13_RuntimeErrorAbortsRun ==
    /\ [][pc = "interpret" /\ I'.ctl = "InterpreterError" =>
             /\ pc' = "ran"
             /\ I'.trace[Len(I'.trace)].ev = "raise"]_vars
    /\ [][pc # "interpret" => I'.trace = I.trace]_vars
    /\ []((I.ctl = "InterpreterError" /\ pc \in {"ran", "exited", "prompt"}) =>
             \A j \in ip + 1 .. Len(statements) : ~Started(statements[j]))
    /\ [][IsPrefix(I.out, I'.out) /\ IsPrefix(I.trace, I'.trace)]_vars
    /\ [](\A j \in DOMAIN I.envs[Globals].values :
             LET binding == I.envs[Globals].values[j]
                 S == Stores(binding.k, Globals, Len(I.trace) + 1)
             IN  binding.k # "clock" => S # {} /\ binding.v = I.trace[Last(S)].v)
    /\ [](pc = "prompt" => I.environment = Globals /\ I.frame = 0 /\ exception = "")
    /\ []((mode = "prompt" /\ pc = "interpret" /\ ip = 1) =>
             I.ctl = "ok" /\ I.environment = Globals)
    /\ [](Exited(RuntimeErrorProgram) => I.out = <<>> /\ I.ctl = "InterpreterError")
    /\ [](Exited(NestedErrorProgram) =>
             /\ I.out = <<"2">>
             /\ Environment_get(I.envs, Globals, "a") = NumV(2, 1)
             /\ I.environment = Globals)
    /\ []((mode = "prompt" /\ nlines = 2 /\ pc = "ran" /\ code = PrintLine
           /\ (\E i \in Events : I.trace[i].ev = "raise")
           /\ (\E i \in Events : I.trace[i].ev = "define")) =>
             I.out = <<"1">>)

\* at the prompt, a line whose second statement raised a runtime error was
\* aborted and the next line has printed the variable its first statement
\* defined
C13_Witness ==
    /\ mode = "prompt"
    /\ nlines = 2
    /\ pc = "ran"
    /\ code = PrintLine
    /\ I.ctl = "ok"
    /\ I.out = <<"1">>
    /\ \E i \in Events : /\ I.trace[i].ev = "raise"
                         /\ I.trace[i].how = "Undefined variable 'b'."
                         /\ i < Len(I.trace)
                         /\ TopLevel(I.trace[i + 1])

\* the names defined in the global environment
GlobalNames == {I.envs[Globals].values[j].k : j \in DOMAIN I.envs[Globals].values}

\* C14: across the lines typed at the prompt, the global definitions of an
\* earlier line stay visible to every later line, the had-error flag is false
\* when a new line starts whatever the earlier lines did, and a line with a
\* scan, parse, resolve or runtime error does not end the session: the session
\* ends only at the end of input, with no exception.
C14_PromptSessionSurvivesErrors ==
    /\ [][mode = "prompt" => \A name \in GlobalNames :
             \E j \in DOMAIN I'.envs[Globals].values : I'.envs[Globals].values[j].k = name]_vars
    /\ []((mode = "prompt" /\ pc = "run") => ~has_error)
    /\ [](mode = "prompt" => exception = "")

\* C15: a / b with two numbers and b zero raises no error of any kind, neither
\* a runtime error nor an exception of the host: the division yields a value
\* and the program goes on (print 1 / 0; prints one line and ends normally).
C15_DivisionByZeroYieldsValue ==
    /\ exception # "ZeroDivisionError"
    /\ Exited(DivideByZeroProgram) =>
          /\ exit_code = 0
          /\ I.ctl = "ok"
          /\ Len(I.out) = 1

\* the objects an Expr or Stmt object holds
Children(n) ==
    LET o == I.nodes[n]
    IN  ({o.a, o.b, o.c} \ {0}) \cup {o.list[j] : j \in DOMAIN o.list}
            \cup {o.methods[j].v : j \in DOMAIN o.methods}

\* the objects of the tree below n, n included
RECURSIVE Sub(_)
Sub(n) == {n} \cup UNION {Sub(c) : c \in Children(n)}

\* the return statements of the tree below n, each with the kind of the
\* innermost function declaration around it (kind for those around which the
\* tree has none)
RECURSIVE Returns(_, _)
Returns(n, kind) ==
    LET o == I.nodes[n]
    IN  CASE o.kind = "ReturnStmt" -> {<<n, kind>>}
          [] o.kind = "Function" -> Returns(o.a, "FUNCTION")
          [] o.kind = "Class" ->
                UNION {Returns(I.nodes[o.methods[j].v].a,
                               IF o.methods[j].k = "init" THEN "INITIALIZER" ELSE "METHOD") :
                         j \in DOMAIN o.methods}
          [] OTHER -> UNION {Returns(c, kind) : c \in Children(n)}

\* the return statements of the program that was parsed
ProgramReturns == UNION {Returns(statements[j], "NONE") : j \in DOMAIN statements}

\* how many lines of the output are the message
Count(message) == Cardinality({j \in DOMAIN I.out : I.out[j] = message})

\* C19: a return outside every function is the static error "Can't return
\* from top-level code.", a return with a value directly inside a method named
\* init is the static error "Can't return a value from an initializer."; a
\* bare return in init and a return with a value in a function nested in init
\* are no errors, and after a nested function the kind of the enclosing
\* function is in force again.  The resolver reports one error for each such
\* return statement of the program and none for the others.
C19_ReturnStaticErrors ==
    (pc = "resolved" /\ mode = "file") =>
        LET top == {r \in ProgramReturns : r[2] = "NONE"}
            init == {r \in ProgramReturns : r[2] = "INITIALIZER" /\ I.nodes[r[1]].a # 0}
        IN  /\ Count("Error at 'return': Can't return from top-level code.")
                  = Cardinality(top)
            /\ Count("Error at 'return': Can't return a value from an initializer.")
                  = Cardinality(init)
            /\ (top \cup init # {}) => resolver_has_error
            /\ code \in {InitReturnProgram, ReturnProgram, CounterProgram} =>
                  ~resolver_has_error /\ I.out = <<>>

\* the resolver has reported the return with a value that follows a nested
\* function in init, and only that one
C19_Witness ==
    /\ pc = "resolved"
    /\ code = NestedInitProgram
    /\ resolver_has_error
    /\ I.out = <<"Error at 'return': Can't return a value from an initializer.">>
    /\ Cardinality(ProgramReturns) = 2

\* the reads of a variable in its own initializer, for the variable
\* declarations in a local scope of the tree below n; local tells whether n
\* itself is in a local scope
RECURSIVE SelfReads(_, _)
SelfReads(n, local) ==
    LET o == I.nodes[n]
    IN  CASE o.kind = "Var" ->
                IF local /\ o.a # 0
                THEN {v \in Sub(o.a) : I.nodes[v].kind = "Variable" /\ I.nodes[v].name = o.name}
                ELSE {}
          [] o.kind \in {"Block", "Function", "Class"} ->
                UNION {SelfReads(c, TRUE) : c \in Children(n)}
          [] OTHER -> UNION {SelfReads(c, local) : c \in Children(n)}

ProgramSelfReads == UNION {SelfReads(statements[j], FALSE) : j \in DOMAIN statements}

\* C20: reading a variable in its own initializer in a local scope is the
\* static error "Can't read local variable in its own initializer." and sets
\* the resolver's error flag; the same declaration at global scope is no
\* static error.  The resolver reports one error for each such read of the
\* program and none for any other read.
C20_OwnInitializerRead ==
    (pc = "resolved" /\ mode = "file") =>
        /\ \A name \in {I.nodes[v].name : v \in ProgramSelfReads} \cup {"x", "a", "y"} :
              Count("Error at '" \o name
                    \o "': Can't read local variable in its own initializer.")
                  = Cardinality({v \in ProgramSelfReads : I.nodes[v].name = name})
        /\ ProgramSelfReads # {} => resolver_has_error
        /\ code = GlobalSelfInitProgram => ~resolver_has_error /\ I.out = <<>>
        /\ code = LocalSelfInitProgram =>
              /\ resolver_has_error
              /\ I.out = <<"Error at 'x': Can't read local variable in its own initializer.">>

\* the resolver has reported the two reads of a local variable in its own
\* initializer, one in a block and one in a function body
C20_Witness ==
    /\ pc = "resolved"
    /\ code = ShadowSelfInitProgram
    /\ resolver_has_error
    /\ I.out = <<"Error at 'a': Can't read local variable in its own initializer.",
                 "Error at 'y': Can't read local variable in its own initializer.">>

\* C21: when the parser meets = after an expression it returns Assign for a
\* Variable and Set(obj, name, value) for a Get; for any other left side no
\* statement is returned and the ParseError "Invalid assignment target." is
\* raised with the = token.
C21_AssignmentTargets ==
    [][\A t \in AssignTargets :
          pc = "scanned" /\ code = AssignTo(t.src) =>
             IF t.kind = "other"
             THEN /\ exception' = "ParseError"
                  /\ stderr' = Append(stderr,
                         "ParseError: [line 2] Error at '=': Invalid assignment target.")
                  /\ statements' = <<>>
                  /\ I'.nodes = I.nodes
             ELSE /\ pc' = "parsed"
                  /\ Len(statements') = 1
                  /\ LET stmt == I'.nodes[statements'[1]]
                         expr == I'.nodes[stmt.a]
                         value == I'.nodes[IF t.kind = "Get" THEN expr.b ELSE expr.a]
                     IN  /\ stmt.kind = "Expression"
                         /\ expr.kind = (IF t.kind = "Get" THEN "Set" ELSE "Assign")
                         /\ expr.name = t.name
                         /\ value.kind = "Literal" /\ value.val = NumV(1, 1)
                         /\ t.kind = "Get" => I'.nodes[expr.a].kind = t.obj]_vars

\* (a) = 1; has been parsed
C21_Witness ==
    /\ code = AssignTo(<<"(", "a", ")">>)
    /\ pc = "exited"
    /\ exception = "ParseError"
    /\ stderr = <<"ParseError: [line 2] Error at '=': Invalid assignment target.">>
    /\ statements = <<>>

\* C22: == is reflexive, symmetric and false for two values of different
\* kinds, and != is the negation of ==.  The four lines printed by
\* EqualProgram(x, y) are x == y, y == x, x != y and x == x.
C22_EqualityIsAnEquivalence ==
    \A x, y \in EqualOperands :
        Exited(EqualProgram(x.src, y.src)) =>
            /\ exception = ""
            /\ Len(I.out) = 4
            /\ I.out[1] \in {"true", "false"}
            /\ I.out[4] = "true"
            /\ I.out[2] = I.out[1]
            /\ x.kind # y.kind => I.out[1] = "false"
            /\ I.out[3] = (IF I.out[1] = "true" THEN "false" ELSE "true")

\* true and 1 have been compared
C22_Witness ==
    /\ Exited(EqualProgram(<<"t", "r", "u", "e">>, <<"1">>))
    /\ I.out = <<"false", "false", "true", "true">>

\* C23: after a block or a function body has been executed, the current
\* environment is the one it was before, whether the body ended, was left by
\* a return or by an error; a class declaration leaves the environment as it
\* found it; between two top-level statements and after interpret the current
\* environment is the global one.
C23_EnvironmentRestored ==
    /\ I.environment = Globals
    /\ \A k \in DOMAIN I.blocks : I.blocks[k].current = I.blocks[k].previous
    /\ \A i \in Events :
          LET e == I.trace[i]
          IN  /\ e.ev = "call" =>
                    \E k \in DOMAIN I.blocks : /\ I.blocks[k].from = i
                                               /\ I.blocks[k].environment = e.env
              /\ (e.ev = "stmt" /\ e.how = "Block") =>
                    \E k \in DOMAIN I.blocks :
                        /\ I.blocks[k].from = i
                        /\ I.blocks[k].previous = e.env
                        /\ I.envs[I.blocks[k].environment].enclosing = e.env
              /\ e.ev = "class" =>
                    \E j \in 1 .. i - 1 :
                        /\ I.trace[j].ev = "stmt" /\ I.trace[j].node = e.node
                        /\ I.trace[j].env = e.env
                        /\ \A m \in j + 1 .. i - 1 : I.trace[m].ev # "stmt"

\* EnvironmentProgram has left blocks and function bodies at their end, by a
\* return and by an error, and has declared a class with a superclass
C23_Witness ==
    /\ Exited(EnvironmentProgram)
    /\ I.out = <<"1">>
    /\ I.ctl = "InterpreterError"
    /\ {I.blocks[k].how : k \in DOMAIN I.blocks} = {"ok", "ReturnException", "InterpreterError"}
    /\ \A k \in DOMAIN I.blocks : I.blocks[k].environment # I.blocks[k].previous
    /\ \E i \in Events : I.trace[i].ev = "class" /\ I.trace[i].list # <<I.trace[i].env>>

\* the environments of the chain of e, from e outward
RECURSIVE EnvChain(_, _)
EnvChain(envs, e) == IF e = 0 THEN <<>> ELSE <<e>> \o EnvChain(envs, envs[e].enclosing)

\* the names an environment binds
Bound(env) == {env.values[j].k : j \in DOMAIN env.values}

\* the places in the chain of e of the environments that bind the name
Binders(envs, e, name) ==
    {i \in DOMAIN EnvChain(envs, e) : name \in Bound(envs[EnvChain(envs, e)[i]])}

\* the nearest environment of the chain of e that binds the name
Nearest(envs, e, name) ==
    EnvChain(envs, e)[CHOOSE i \in Binders(envs, e, name) :
                         \A j \in Binders(envs, e, name) : i <= j]

\* C24: Environment._assign(name, value) overwrites the binding of the nearest
\* environment of the chain that binds the name and changes nothing else; when
\* no environment of the chain binds the name it raises the undefined-variable
\* error and changes no environment: it never creates a binding.
C24_AssignNeverCreates ==
    [][(pc = "env" /\ pc' = "returned" /\ I'.trace[1].ev = "_assign") =>
          LET call == I'.trace[1]
              name == call.how
          IN  /\ Len(I'.envs) = Len(I.envs)
              /\ \A k \in DOMAIN I.envs : /\ Bound(I'.envs[k]) = Bound(I.envs[k])
                                           /\ I'.envs[k].enclosing = I.envs[k].enclosing
              /\ IF Binders(I.envs, call.env, name) = {}
                 THEN /\ I'.ctl = "InterpreterError"
                      /\ I'.etok = name
                      /\ I'.emsg = "Undefined variable '" \o name \o "'."
                      /\ I'.envs = I.envs
                 ELSE /\ I'.ctl = "ok"
                      /\ \A k \in DOMAIN I.envs : \A n \in Bound(I.envs[k]) :
                            DictGet(I'.envs[k].values, n) =
                               IF k = Nearest(I.envs, call.env, name) /\ n = name
                               THEN call.v
                               ELSE DictGet(I.envs[k].values, n)]_vars

\* a was assigned from the third environment, which does not bind it, and the
\* enclosing environment was written, not the global one, which binds a too
C24_Witness ==
    /\ pc = "returned"
    /\ I.trace[1].ev = "_assign" /\ I.trace[1].env = 3 /\ I.trace[1].how = "a"
    /\ Len(I.envs) = 3
    /\ I.envs[3].enclosing = 2
    /\ Bound(I.envs[3]) = {"b"}
    /\ "a" \in Bound(I.envs[2]) /\ "a" \in Bound(I.envs[1])
    /\ I.ctl = "ok"
    /\ DictGet(I.envs[2].values, "a") = StrV("new")
    /\ DictGet(I.envs[1].values, "a") = NumV(1, 1)

\* C25: Environment.get(name) returns the value bound by the nearest
\* environment of the chain that binds the name, raises the undefined-variable
\* error with the name token exactly when none binds it, and changes no
\* environment.
C25_GetNearestBinding ==
    [][(pc = "env" /\ pc' = "returned" /\ I'.trace[1].ev = "get") =>
          LET call == I'.trace[1]
              name == call.how
          IN  /\ I'.envs = I.envs
              /\ IF Binders(I.envs, call.env, name) = {}
                 THEN /\ I'.ctl = "InterpreterError"
                      /\ I'.etok = name
                      /\ I'.emsg = "Undefined variable '" \o name \o "'."
                 ELSE /\ I'.ctl = "ok"
                      /\ I'.v = DictGet(I.envs[Nearest(I.envs, call.env, name)].values,
                                        name)]_vars

\* a was read from the third environment, which binds it as its two enclosing
\* environments do
C25_Witness ==
    /\ pc = "returned"
    /\ I.trace[1].ev = "get" /\ I.trace[1].env = 3 /\ I.trace[1].how = "a"
    /\ Len(I.envs) = 3
    /\ I.envs[3].enclosing = 2
    /\ \A k \in 1 .. 3 : "a" \in Bound(I.envs[k])
    /\ I.ctl = "ok"
    /\ I.v = NumV(3, 1)

\* the places in the stack of the scopes that hold the name
Holders(scopes, name) ==
    {i \in DOMAIN scopes : \E j \in DOMAIN scopes[i] : scopes[i][j].k = name}

\* C26: with n scopes on the stack, _resolve_local records for the reference
\* the distance n - 1 - i, i the 0-based index of the innermost scope holding
\* the name; when no scope holds the name it records nothing, and
\* lookup_variable then reads the name in the globals.
C26_ResolveLocalDistance ==
    [][/\ (pc = "resolver" /\ pc' = "resolved_local") =>
             LET call == I'.trace[1]
                 h == Holders(call.list, call.how)
             IN  /\ I.locals = <<>>
                 /\ IF h = {}
                    THEN I'.locals = <<>>
                    ELSE /\ Len(I'.locals) = 1
                         /\ DictHas(I'.locals, call.node)
                         /\ \E i \in h :
                               /\ \A j \in h : j <= i
                               /\ DictGet(I'.locals, call.node) = Len(call.list) - 1 - (i - 1)
       /\ (pc = "resolved_local" /\ pc' = "returned" /\ I.locals = <<>>) =>
             LET name == I.trace[1].how
             IN  IF name \in Bound(I.envs[Globals])
                 THEN I'.ctl = "ok" /\ I'.v = DictGet(I.envs[Globals].values, name)
                 ELSE /\ I'.ctl = "InterpreterError"
                      /\ I'.emsg = "Undefined variable '" \o name \o "'."]_vars

\* a was resolved with three scopes of which the first two hold it, and read
\* one environment up
C26_Witness ==
    /\ pc = "returned"
    /\ I.trace[1].how = "a"
    /\ Len(I.trace[1].list) = 3
    /\ Holders(I.trace[1].list, "a") = {1, 2}
    /\ I.locals = <<[k |-> 1, v |-> 1]>>
    /\ I.environment = 2
    /\ I.ctl = "ok"

\* C27: each bind of a method to an instance (by inst.method, by super.method
\* and by the call of a class with an init) returns a new Function object on
\* a new environment whose parent is the closure of the method and whose only
\* binding is this = the instance; two binds give two distinct environments;
\* the bind changes no object and no environment that was there before it:
\* neither the closure of the method nor the method the class holds.
C27_BindCreatesNewEnvironment ==
    /\ \A k \in DOMAIN I.binds :
          LET b == I.binds[k]
              m == b.nodes[b.method]
          IN  /\ b.value = FunV(Len(b.nodes) + 1)
              /\ b.env = Len(b.envs) + 1
              /\ Len(b.nodes_after) = Len(b.nodes) + 1
              /\ Len(b.envs_after) = Len(b.envs) + 1
              /\ \A n \in DOMAIN b.nodes : b.nodes_after[n] = b.nodes[n]
              /\ \A e \in DOMAIN b.envs : b.envs_after[e] = b.envs[e]
              /\ b.envs_after[b.env] =
                    [values |-> <<[k |-> "this", v |-> b.instance]>>, enclosing |-> m.closure]
              /\ b.nodes_after[b.value.n] = [m EXCEPT !.closure = b.env]
              /\ I.envs[b.env] = b.envs_after[b.env]
              /\ \A j \in DOMAIN I.binds :
                    j # k => I.binds[j].env # b.env /\ I.binds[j].value # b.value
              /\ I.trace[b.at].ev = "bind" /\ I.trace[b.at].env = b.env
    /\ \A i \in Events :
          LET e == I.trace[i]
              bound(method, instance) ==
                  /\ i < Len(I.trace)
                  /\ \E k \in DOMAIN I.binds :
                        /\ I.binds[k].at = i + 1
                        /\ I.binds[k].method = method
                        /\ I.binds[k].instance = instance
          IN  /\ e.ev = "bind" => \E k \in DOMAIN I.binds : I.binds[k].at = i
              /\ (/\ e.ev = "get"
                  /\ DictHas(I.nodes[I.insts[e.v.n].kclass].methods, e.how)
                  /\ i < Len(I.trace) => I.trace[i + 1].ev # "field")
                 => bound(DictGet(I.nodes[I.insts[e.v.n].kclass].methods, e.how), e.v)
              /\ (/\ e.ev = "read" /\ e.how = "super"
                  /\ DictHas(I.nodes[e.v.n].methods, I.nodes[e.node].method))
                 => \E k \in DOMAIN I.binds :
                        /\ I.binds[k].at = i + 1
                        /\ I.binds[k].method =
                              DictGet(I.nodes[e.v.n].methods, I.nodes[e.node].method)
              /\ (e.ev = "new" /\ DictHas(I.nodes[e.node].methods, "init"))
                 => bound(DictGet(I.nodes[e.node].methods, "init"), e.v)
    /\ Exited(BindProgram) => I.out = <<"false", "true">>

\* BindProgram has bound init to a new instance, m of B twice to the same
\* instance and m of A by super.m
C27_Witness ==
    /\ Exited(BindProgram)
    /\ I.out = <<"false", "true">>
    /\ \E j, k \in DOMAIN I.binds :
          /\ j # k
          /\ I.binds[j].method = I.binds[k].method
          /\ I.binds[j].instance = I.binds[k].instance
          /\ I.binds[j].env # I.binds[k].env
    /\ \E k \in DOMAIN I.binds : I.nodes[I.binds[k].method].name = "init"
    /\ \E k \in DOMAIN I.binds :
          /\ I.binds[k].at > 1
          /\ I.trace[I.binds[k].at - 1].ev = "read"
          /\ I.trace[I.binds[k].at - 1].how = "super"

C29_ClassDeclarationsAreIndependent ==
    /\ \A i \in Events :
          LET e == I.trace[i]
          IN  e.ev = "class" =>
                /\ \A j \in Events : (j # i /\ I.trace[j].ev = "class") => I.trace[j].v # e.v
                /\ \A k \in DOMAIN I.nodes[e.v.n].methods :
                      I.nodes[I.nodes[e.v.n].methods[k].v].closure = e.list[1]
    /\ Exited(ClassFactoryProgram) => I.out = <<"1", "2", "false">>

\* C30: when the resolver has finished, with or without static errors, its
\* stack of scopes is empty and its function kind and class kind are NONE:
\* every scope begun was ended once.
C30_ResolverEndsBalanced ==
    pc \in {"resolved", "interpret", "ran", "exited", "prompt"} =>
        /\ resolver.scopes = <<>>
        /\ resolver.current_func = "NONE"
        /\ resolver.current_class = "NONE"
        /\ resolver.ended = resolver.begun
        /\ resolver.has_error = resolver_has_error

\* ScopesProgram has been resolved with two static errors and six scopes: of
\* this in A, of super and this in B, of init and of two blocks
C30_Witness ==
    /\ pc = "resolved"
    /\ code = ScopesProgram
    /\ resolver.has_error
    /\ I.out = <<"Error at 'return': Can't return a value from an initializer.",
                 "Error at 'a': Can't read local variable in its own initializer.">>
    /\ resolver.begun = 6
    /\ resolver.ended = 6
    /\ resolver.scopes = <<>>
    /\ resolver.current_func = "NONE"
    /\ resolver.current_class = "NONE"

====
